---- MODULE Spec2Model ----
(***************************************************************************)
(* TestAIgnite: the AI enrichment pipeline (scripts/ai/enrichResults.js)   *)
(* and the report-part merge (scripts/report/renderHtmlReport.js).         *)
(*                                                                         *)
(* JavaScript strings are TLA+ strings, taken apart with Len, SubSeq and   *)
(* \o.  A JSON object is a record whose DOMAIN is the set of keys that are *)
(* present; a JSON value is a record tagged with its JavaScript type.      *)
(* Numbers that the code treats as fractions (confidence) are kept in      *)
(* hundredths; percentages are kept in thousandths of a percent.           *)
(***************************************************************************)
EXTENDS Integers, Sequences, FiniteSets, TLC

(***************************************************************************)
(* Bounds of the model.                                                    *)
(***************************************************************************)
MaxRuns == 2
MaxFragments == 2
MaxCount == 2

(***************************************************************************)
(* String primitives of the JavaScript runtime.                            *)
(***************************************************************************)
UpperChars == "ABCDEFGHIJKLMNOPQRSTUVWXYZ"
LowerChars == "abcdefghijklmnopqrstuvwxyz"

\* F(v) with v evaluated once, as a call passes its argument by value
With(v, F(_)) == CHOOSE r \in {F(x) : x \in {v}} : TRUE

CharAt(s, i) == SubSeq(s, i, i)

\* the string made of Piece(1) .. Piece(n) in this order, n <= 256; written
\* without recursion, as nested concatenations of eight
ConcatPieces(Piece(_), n) ==
    LET P(i) == IF i <= n THEN Piece(i) ELSE ""
        C8(k) == IF k > n THEN ""
                 ELSE P(k) \o P(k + 1) \o P(k + 2) \o P(k + 3)
                      \o P(k + 4) \o P(k + 5) \o P(k + 6) \o P(k + 7)
        C64(k) == IF k > n THEN ""
                  ELSE C8(k) \o C8(k + 8) \o C8(k + 16) \o C8(k + 24)
                       \o C8(k + 32) \o C8(k + 40) \o C8(k + 48) \o C8(k + 56)
    IN  C64(1) \o C64(65) \o C64(129) \o C64(193)

LowerChar(c) ==
    IF \E i \in 1..Len(UpperChars) : CharAt(UpperChars, i) = c
    THEN CharAt(LowerChars, CHOOSE i \in 1..Len(UpperChars) : CharAt(UpperChars, i) = c)
    ELSE c

toLowerCase(s) ==
    LET lower(str) ==
            ConcatPieces(LAMBDA i : With(CharAt(str, i), LowerChar), Len(str))
    IN  With(s, lower)

includes(s, k) ==
    LET found(str) ==
            \E i \in 1..(Len(str) - Len(k) + 1) : SubSeq(str, i, i + Len(k) - 1) = k
    IN  With(s, found)

IsSpace(c) == c \in {" ", "\n", "\t"}

\* str.replace(/\n/g, " ")
ReplaceNewlines(s) ==
    LET replaced(str) ==
            ConcatPieces(LAMBDA i : IF CharAt(str, i) = "\n" THEN " "
                                    ELSE CharAt(str, i), Len(str))
    IN  With(s, replaced)

\* str.replace(/\s+/g, " "): of a run of white space one space is left
CollapseSpaces(s) ==
    LET collapsed(str) ==
            ConcatPieces(LAMBDA i : IF ~IsSpace(CharAt(str, i)) THEN CharAt(str, i)
                                    ELSE IF i > 1 /\ IsSpace(CharAt(str, i - 1)) THEN ""
                                    ELSE " ",
                         Len(str))
    IN  With(s, collapsed)

\* str.trim()
trim(s) ==
    LET trimmed(str) ==
            LET solid == {i \in 1..Len(str) : ~IsSpace(CharAt(str, i))}
            IN  IF solid = {} THEN ""
                ELSE SubSeq(str, CHOOSE i \in solid : \A j \in solid : i <= j,
                                 CHOOSE i \in solid : \A j \in solid : j <= i)
    IN  With(s, trimmed)

\* the k-th smallest element of a set of numbers
Kth(S, k) == CHOOSE i \in S : Cardinality({j \in S : j < i}) = k - 1

\* str.split(" "): the pieces between single spaces; "" splits into <<"">>
split(s) ==
    LET pieces(str) ==
            LET cuts(spaces) ==
                    [k \in 1..(Cardinality(spaces) + 1) |->
                        SubSeq(str,
                               (IF k = 1 THEN 0 ELSE Kth(spaces, k - 1)) + 1,
                               (IF k > Cardinality(spaces) THEN Len(str) + 1
                                ELSE Kth(spaces, k)) - 1)]
            IN  With({i \in 1..Len(str) : CharAt(str, i) = " "}, cuts)
    IN  With(s, pieces)

\* arr.slice(0, n)
slice(a, n) ==
    LET first(arr) == SubSeq(arr, 1, IF Len(arr) < n THEN Len(arr) ELSE n)
    IN  With(a, first)

\* arr.join(" ")
join(a) ==
    LET joined(arr) ==
            ConcatPieces(LAMBDA i : IF i = 1 THEN arr[1] ELSE " " \o arr[i], Len(arr))
    IN  With(a, joined)

\* str.replace(/\.\.\.$/, ".")
StripEllipsis(s) ==
    LET stripped(str) ==
            IF Len(str) >= 3 /\ SubSeq(str, Len(str) - 2, Len(str)) = "..."
            THEN SubSeq(str, 1, Len(str) - 3) \o "."
            ELSE str
    IN  With(s, stripped)

(***************************************************************************)
(* JavaScript values as they come out of JSON.parse.                       *)
(***************************************************************************)
Undefined == [t |-> "undefined"]
Null == [t |-> "null"]
Str(s) == [t |-> "string", s |-> s]
Num(n) == [t |-> "number", n |-> n]
Bool(b) == [t |-> "boolean", b |-> b]
Arr(a) == [t |-> "array", a |-> a]

\* obj.key : undefined when the key is absent
Get(o, k) == IF k \in DOMAIN o THEN o[k] ELSE Undefined

\* the truthiness that || and ! test
Truthy(v) ==
    CASE v.t = "undefined" -> FALSE
      [] v.t = "null" -> FALSE
      [] v.t = "string" -> v.s # ""
      [] v.t = "number" -> v.n # 0
      [] v.t = "boolean" -> v.b
      [] OTHER -> TRUE

\* a || b
OrElse(a, b) == IF Truthy(a) THEN a ELSE b

\* the string that + " " + makes of a value
ToStr(v) ==
    CASE v.t = "undefined" -> "undefined"
      [] v.t = "null" -> "null"
      [] v.t = "string" -> v.s
      [] OTHER -> "[object Object]"

(***************************************************************************)
(* CONFIG                                                                  *)
(***************************************************************************)
models == << "meta-llama/Meta-Llama-3-8B-Instruct",
             "mistralai/Mixtral-8x7B-Instruct-v0.1",
             "microsoft/Phi-3-mini-4k-instruct" >>

(***************************************************************************)
(* UTILITIES                                                               *)
(***************************************************************************)
\* cleanText calls .replace on (str || ""): a truthy value that is not a
\* string has no such method and the call throws a TypeError
cleanTextThrows(v) == Truthy(v) /\ v.t # "string"

cleanText(v) ==
    LET str == IF Truthy(v) THEN v.s ELSE ""
    IN  trim(CollapseSpaces(ReplaceNewlines(str)))

\* deriveTagsSlice keeping the last four tags instead of the first four
deriveTagsSliceLast(tags) ==
    SubSeq(tags, IF Len(tags) > 4 THEN Len(tags) - 3 ELSE 1, Len(tags))

\* Array.from(tags).slice(0, 4)
deriveTagsSlice(tags) == slice(tags, 4)

\* a Set keeps insertion order, which is the order of the if statements
deriveTags(errorMsg, fullTitle) ==
    LET tagsOf(text) ==
            LET timing == IF includes(text, "timeout") \/ includes(text, "waited")
                          THEN <<"timing">> ELSE <<>>
                selector == IF includes(text, "get") \/ includes(text, "find")
                               \/ includes(text, "contains")
                            THEN <<"selector">> ELSE <<>>
                auth == IF includes(text, "401") \/ includes(text, "403")
                           \/ includes(text, "login")
                        THEN <<"auth">> ELSE <<>>
                network == IF includes(text, "500") \/ includes(text, "fetch")
                              \/ includes(text, "network")
                           THEN <<"network">> ELSE <<>>
                assertion == IF includes(text, "expect") \/ includes(text, "assert")
                             THEN <<"assertion">> ELSE <<>>
            IN  deriveTagsSlice(timing \o selector \o auth \o network \o assertion)
    IN  With(toLowerCase(ToStr(errorMsg) \o " " \o ToStr(fullTitle)), tagsOf)

(***************************************************************************)
(* A model's raw text, as the pieces the validator's regular expression    *)
(* and JSON.parse tell apart: an opening brace, a closing brace, a run of  *)
(* commentary without braces, a run of digits, the literal null, and the   *)
(* members (key: value pairs) of a JSON object.                            *)
(***************************************************************************)
LBrace == [kind |-> "lbrace"]
RBrace == [kind |-> "rbrace"]
Text == [kind |-> "text"]
Digits(n) == [kind |-> "digits", n |-> n]
NullLit == [kind |-> "null"]
Members(o) == [kind |-> "members", o |-> o]

EmptyObject == [k \in {} |-> Undefined]
Object(o) == [t |-> "object", o |-> o]

\* value.key : TypeError on undefined and null, undefined on a primitive
PropThrows(v) == v.t \in {"undefined", "null"}
Prop(v, k) == IF v.t = "object" THEN Get(v.o, k) ELSE Undefined

\* rawJson.match(/\{[\s\S]*\}/): from the first "{" to the last "}"
RegexMatch(raw) ==
    LET ls == {i \in 1..Len(raw) : raw[i] = LBrace}
        rs == {i \in 1..Len(raw) : raw[i] = RBrace}
        first == CHOOSE i \in ls : \A j \in ls : i <= j
        last == CHOOSE i \in rs : \A j \in rs : j <= i
    IN  IF ls # {} /\ rs # {} /\ first < last
        THEN [found |-> TRUE, str |-> SubSeq(raw, first, last)]
        ELSE [found |-> FALSE, str |-> raw]

\* later members replace earlier ones with the same key
RECURSIVE MergeMembers(_)
MergeMembers(toks) ==
    IF Len(toks) = 0 THEN EmptyObject
    ELSE LET rest == MergeMembers(SubSeq(toks, 1, Len(toks) - 1))
             lastO == toks[Len(toks)].o
         IN  [k \in DOMAIN rest \cup DOMAIN lastO |->
                 IF k \in DOMAIN lastO THEN lastO[k] ELSE rest[k]]

\* JSON.parse(jsonStr): a value, or a SyntaxError
JsonParse(str) ==
    LET n == Len(str) IN
    IF n >= 2 /\ str[1] = LBrace /\ str[n] = RBrace
       /\ \A i \in 2..(n - 1) : str[i].kind = "members"
    THEN [ok |-> TRUE, v |-> Object(MergeMembers(SubSeq(str, 2, n - 1)))]
    ELSE IF n = 1 /\ str[1].kind = "digits"
    THEN [ok |-> TRUE, v |-> Num(str[1].n)]
    ELSE IF n = 1 /\ str[1].kind = "null"
    THEN [ok |-> TRUE, v |-> Null]
    ELSE [ok |-> FALSE, v |-> Undefined]

(***************************************************************************)
(* CORE AI LOGIC                                                           *)
(***************************************************************************)
\* test.err?.message
ErrMessage(test) ==
    IF "err" \in DOMAIN test THEN Get(test.err, "message") ELSE Undefined

SeverityLevels == {"low", "medium", "high", "critical"}

\* data.severity?.toLowerCase() is a TypeError on anything but a string,
\* undefined or null
severityThrows(v) == v.t \notin {"undefined", "null", "string"}

sanitizeSeverity(v) ==
    LET level(lower) == IF lower \in SeverityLevels THEN Str(lower) ELSE Str("medium")
    IN  IF v.t = "string" THEN With(toLowerCase(v.s), level) ELSE Str("medium")

\* Math.min(Math.max(c, 0), 1), in hundredths
sanitizeConfidence(v) ==
    IF v.t = "number"
    THEN Num(IF v.n < 0 THEN 0 ELSE IF v.n > 100 THEN 100 ELSE v.n)
    ELSE Num(50)

\* sanitizeSummary without the default for an empty summary
sanitizeSummaryNoDefault(v) == Str(join(slice(split(cleanText(v)), 15)))

sanitizeSummary(v) ==
    OrElse(Str(join(slice(split(cleanText(v)), 15))),
           Str("Investigate failure reason."))

sanitizeRecommendation(v) ==
    LET padded(cleaned) ==
            IF Len(split(cleaned)) < 10
            THEN cleaned \o " Please review the test logic and error stack for more details."
            ELSE cleaned
    IN  Str(StripEllipsis(With(cleanText(v), padded)))

sanitizeTags(v, originalTest) ==
    IF v.t = "array" /\ Len(v.a) > 0
    THEN Arr(slice(v.a, 5))
    ELSE Arr(deriveTags(ErrMessage(originalTest), Get(originalTest, "title")))

\* lines 195-223, for the value JSON.parse returned
sanitize(data, originalTest) ==
    IF PropThrows(data)
       \/ cleanTextThrows(Prop(data, "summary"))
       \/ cleanTextThrows(Prop(data, "recommendation"))
       \/ severityThrows(Prop(data, "severity"))
    THEN [ok |-> FALSE, err |-> "TypeError"]
    ELSE [ok |-> TRUE, value |->
           [summary |-> sanitizeSummary(Prop(data, "summary")),
            humanError |-> OrElse(Prop(data, "humanError"),
                Str("An error occurred during the test execution.")),
            testRootCause |-> OrElse(Prop(data, "testRootCause"),
                Str("Assertion or selector failure detected in test code.")),
            productRootCause |-> OrElse(Prop(data, "productRootCause"),
                Str("Possible defect in application logic or responsiveness.")),
            bugEffect |-> OrElse(Prop(data, "bugEffect"),
                Str("User flow is blocked or behavior is inconsistent.")),
            inferredExpected |-> OrElse(Prop(data, "inferredExpected"),
                Str("The application should behave as defined in the test requirement.")),
            recommendation |-> sanitizeRecommendation(Prop(data, "recommendation")),
            severity |-> sanitizeSeverity(Prop(data, "severity")),
            confidence |-> sanitizeConfidence(Prop(data, "confidence")),
            tags |-> sanitizeTags(Prop(data, "tags"), originalTest)]]

\* the result of validateAndSanitize: the Insight, or the error it throws
validateAndSanitize(rawJson, originalTest) ==
    LET checked(parsed) ==
            IF ~parsed.ok THEN [ok |-> FALSE, err |-> "Malformed JSON response"]
            ELSE sanitize(parsed.v, originalTest)
    IN  With(JsonParse(RegexMatch(rawJson).str), checked)

\* test.err?.message || ""
getFallbackMsg(test) == OrElse(ErrMessage(test), Str(""))

\* getFallbackInsight with the validator's default confidence of 0.5
getFallbackInsightHalf(test) ==
    [summary |-> Str("AI analysis unavailable."),
     recommendation |-> Str("Manual review required. Check the error logs and screenshot artifacts to diagnose the issue."),
     severity |-> Str("medium"),
     confidence |-> Num(50),
     tags |-> Arr(<<"ai-unavailable">>
                  \o deriveTags(getFallbackMsg(test), Get(test, "title")))]

getFallbackInsight(test) ==
    [summary |-> Str("AI analysis unavailable."),
     recommendation |-> Str("Manual review required. Check the error logs and screenshot artifacts to diagnose the issue."),
     severity |-> Str("medium"),
     confidence |-> Num(0),
     tags |-> Arr(<<"ai-unavailable">>
                  \o deriveTags(getFallbackMsg(test), Get(test, "title")))]

(***************************************************************************)
(* The suite tree of a report.  A test is addressed by the indexes of the  *)
(* suites that lead to it (the first one into report.results) and its      *)
(* index in the last suite's tests.                                        *)
(***************************************************************************)
\* (s.tests || []) and (s.suites || [])
SuiteTests(s) == IF "tests" \in DOMAIN s THEN s.tests ELSE <<>>
SuiteSuites(s) == IF "suites" \in DOMAIN s THEN s.suites ELSE <<>>

\* IsCandidate without the test for an existing ai
IsCandidateIgnoringAi(test) ==
    Truthy(Get(test, "fail")) \/ Get(test, "state") = Str("failed")

\* (test.fail || test.state === 'failed') && !test.ai
IsCandidate(test) ==
    /\ Truthy(Get(test, "fail")) \/ Get(test, "state") = Str("failed")
    /\ "ai" \notin DOMAIN test

RECURSIVE ConcatAll(_)
ConcatAll(seqs) ==
    IF Len(seqs) = 0 THEN <<>> ELSE Head(seqs) \o ConcatAll(Tail(seqs))

\* the tests of s that are pushed, in the order of the forEach
OwnCandidates(s, at) ==
    LET ts == SuiteTests(s)
    IN  ConcatAll([i \in 1..Len(ts) |->
            IF IsCandidate(ts[i]) THEN <<[suites |-> at, test |-> i]>> ELSE <<>>])

\* processSuite walking the nested suites before the suite's own tests
RECURSIVE processSuiteNestedFirst(_, _)
processSuiteNestedFirst(s, at) ==
    LET subs == SuiteSuites(s)
    IN  ConcatAll([j \in 1..Len(subs) |->
                      processSuiteNestedFirst(subs[j], at \o <<j>>)])
        \o OwnCandidates(s, at)

RECURSIVE processSuite(_, _)
processSuite(s, at) ==
    LET subs == SuiteSuites(s)
    IN  OwnCandidates(s, at)
        \o ConcatAll([j \in 1..Len(subs) |-> processSuite(subs[j], at \o <<j>>)])

\* report.results.forEach(suite => processSuite(suite))
ExtractCandidates(report) ==
    ConcatAll([r \in 1..Len(report.results) |->
                  processSuite(report.results[r], <<r>>)])

RECURSIVE SuiteAt(_, _)
SuiteAt(s, path) ==
    IF Len(path) = 0 THEN s ELSE SuiteAt(s.suites[Head(path)], Tail(path))

TestAt(report, c) ==
    SuiteAt(report.results[Head(c.suites)], Tail(c.suites)).tests[c.test]

\* test.ai = ai, on the test object that the report shares with candidates
RECURSIVE AssignInSuite(_, _, _, _)
AssignInSuite(s, path, ti, ai) ==
    IF Len(path) = 0
    THEN [s EXCEPT !.tests[ti] =
             [k \in DOMAIN @ \cup {"ai"} |-> IF k = "ai" THEN ai ELSE @[k]]]
    ELSE [s EXCEPT !.suites[Head(path)] = AssignInSuite(@, Tail(path), ti, ai)]

AssignAi(report, c, ai) ==
    [report EXCEPT !.results[Head(c.suites)] =
        AssignInSuite(@, Tail(c.suites), c.test, ai)]

\* every test of the tree, candidates or not
RECURSIVE AllTestsOf(_, _)
AllTestsOf(s, at) ==
    LET ts == SuiteTests(s)
        subs == SuiteSuites(s)
    IN  [i \in 1..Len(ts) |-> [suites |-> at, test |-> i]]
        \o ConcatAll([j \in 1..Len(subs) |-> AllTestsOf(subs[j], at \o <<j>>)])

AllTests(report) ==
    ConcatAll([r \in 1..Len(report.results) |->
                  AllTestsOf(report.results[r], <<r>>)])

(***************************************************************************)
(* Files.  disk maps the paths that exist to their contents: a file is     *)
(* either text that JSON.parse rejects or a JSON object.                   *)
(***************************************************************************)
Garbage == [kind |-> "garbage"]
Json(o) == [kind |-> "json", o |-> o]

\* JSON.stringify leaves out the keys of an object whose value is undefined
Stringify(o) == [k \in {j \in DOMAIN o : o[j] # Undefined} |-> o[k]]

RECURSIVE StringifySuite(_)
StringifySuite(s) ==
    [k \in DOMAIN s |->
        IF k = "tests"
        THEN [i \in 1..Len(s.tests) |->
                 IF "ai" \in DOMAIN s.tests[i]
                 THEN [s.tests[i] EXCEPT !.ai = Stringify(@)]
                 ELSE s.tests[i]]
        ELSE IF k = "suites"
        THEN [j \in 1..Len(s.suites) |-> StringifySuite(s.suites[j])]
        ELSE s[k]]

\* writeJson serialising the results and nothing else of the report
writeJsonResultsOnly(data) ==
    Json([results |-> [r \in 1..Len(data.results) |-> StringifySuite(data.results[r])]])

\* writeJson followed by a later readJson of the same file
writeJson(data) ==
    Json([data EXCEPT !.results =
             [r \in 1..Len(@) |-> StringifySuite(@[r])]])

\* readJson: null when the file cannot be read or parsed
readJsonFails(fs, p) == p \notin DOMAIN fs \/ fs[p].kind # "json"

\* !report || !report.results
IsInvalidReport(fs, p) == readJsonFails(fs, p) \/ "results" \notin DOMAIN fs[p].o

fallbackReport == "../results.json"

\* glob(`${reportsFolder}/*.json`)
GlobNames(fs) == {p \in DOMAIN fs : p # fallbackReport}

\* the orders in which a directory listing can come back
Orderings(S) ==
    {q \in [1..Cardinality(S) -> S] : \A i, j \in 1..Cardinality(S) : q[i] = q[j] => i = j}

(***************************************************************************)
(* 1. Locate and rename anonymous reports to spec-aware names.             *)
(***************************************************************************)
Alnum == "abcdefghijklmnopqrstuvwxyzABCDEFGHIJKLMNOPQRSTUVWXYZ0123456789"

startsWith(s, k) == Len(s) >= Len(k) /\ SubSeq(s, 1, Len(k)) = k
endsWith(s, k) == Len(s) >= Len(k) /\ SubSeq(s, Len(s) - Len(k) + 1, Len(s)) = k

\* path.basename(p)
basename(p) ==
    LET base(str) ==
            LET afterLast(slashes) ==
                    IF slashes = {} THEN str
                    ELSE SubSeq(str, (CHOOSE i \in slashes : \A j \in slashes : j <= i) + 1,
                                Len(str))
            IN  With({i \in 1..Len(str) : CharAt(str, i) = "/"}, afterLast)
    IN  With(p, base)

\* name.replace(/\.cy\.js$|\.js$/, '')
stripSpecExt(name) ==
    LET stripped(str) ==
            IF endsWith(str, ".cy.js") THEN SubSeq(str, 1, Len(str) - 6)
            ELSE IF endsWith(str, ".js") THEN SubSeq(str, 1, Len(str) - 3)
            ELSE str
    IN  With(name, stripped)

\* name.replace(/[^a-z0-9]/gi, '_').toLowerCase()
sanitizeName(name) ==
    LET safeChar(c) == IF includes(Alnum, c) THEN LowerChar(c) ELSE "_"
        safe(str) == ConcatPieces(LAMBDA i : With(CharAt(str, i), safeChar), Len(str))
    IN  With(name, safe)

\* data.results?.[0]
FirstResult(data) ==
    IF "results" \in DOMAIN data /\ Len(data.results) >= 1
    THEN data.results[1] ELSE EmptyObject

specNameOf(data) ==
    LET nameOf(first) ==
            LET specFile == OrElse(OrElse(Get(first, "file"), Get(first, "fullFile")), Str(""))
            IN  sanitizeName(IF Truthy(specFile)
                             THEN stripSpecExt(basename(specFile.s))
                             ELSE OrElse(Get(first, "title"), Str("unknown")).s)
    IN  With(FirstResult(data), nameOf)

IsGenericName(fileName) == startsWith(fileName, "results_") \/ fileName = "results.json"

\* one turn of the loop over rawFiles; a file that cannot be read or parsed
\* is warned about and left alone
RenameOne(fs, f) ==
    LET renameSync(newPath) ==
            IF f # newPath /\ newPath \notin DOMAIN fs
            THEN [p \in (DOMAIN fs \ {f}) \cup {newPath} |->
                     IF p = newPath THEN fs[f] ELSE fs[p]]
            ELSE fs
    IN  IF ~IsGenericName(f) \/ readJsonFails(fs, f) THEN fs
        ELSE With(specNameOf(fs[f].o) \o "_results.json", renameSync)

RECURSIVE RenameAll(_, _)
RenameAll(fs, rawFiles) ==
    LET rest(renamed) == RenameAll(renamed, Tail(rawFiles))
    IN  IF Len(rawFiles) = 0 THEN fs
        ELSE With(RenameOne(fs, Head(rawFiles)), rest)

\* the reads of the files after the turn of the loop for f: line 290 reads
\* a file with a generic name, and a renamed file keeps its count
RenameReads(fs, rd, f) ==
    IF ~IsGenericName(f) THEN rd
    ELSE LET counted(renamed) ==
                 [q \in DOMAIN renamed |->
                     IF q = f \/ q \notin DOMAIN fs THEN rd[f] + 1 ELSE rd[q]]
         IN  With(RenameOne(fs, f), counted)

RECURSIVE ReadsAll(_, _, _)
ReadsAll(fs, rd, rawFiles) ==
    IF Len(rawFiles) = 0 THEN rd
    ELSE ReadsAll(RenameOne(fs, Head(rawFiles)),
                  RenameReads(fs, rd, Head(rawFiles)), Tail(rawFiles))

(***************************************************************************)
(* The reports and directories the pipeline is run on.                     *)
(***************************************************************************)
TestPassed == [title |-> Str("renders the form"), state |-> Str("passed")]
TestTimedOut ==
    [title |-> Str("[auth] login redirects"), state |-> Str("failed"),
     err |-> [message |-> Str("Timed out retrying after 4000ms")]]
TestLegacyFail ==
    [title |-> Str("shows the list"), fail |-> Bool(TRUE),
     err |-> [message |-> Str("Timeout: expected cy.get to find the element")]]
TestNoErr == [title |-> Str("opens admin"), state |-> Str("failed")]
TestEnriched ==
    [title |-> Str("saves"), state |-> Str("failed"),
     err |-> [message |-> Str("expected 500 to equal 200")],
     ai |-> [summary |-> Str("Server error on save."), modelUsed |-> Str(models[1])]]
TestPending == [title |-> Str("later"), state |-> Str("pending")]

NoStats == EmptyObject

\* two candidates: one at the root of the result entry, one in a nested suite
ReportLogin ==
    [stats |-> [tests |-> 3, passes |-> 1, failures |-> 2, testsRegistered |-> 3],
     results |-> << [title |-> Str(""), file |-> Str("cypress/e2e/login.cy.js"),
                     tests |-> <<TestPassed, TestTimedOut>>,
                     suites |-> << [title |-> Str("Login"),
                                    tests |-> <<TestLegacyFail>>,
                                    suites |-> <<>>] >>] >>,
     meta |-> Str("meta-login")]

\* one candidate next to a failed test that was enriched before
ReportAdmin ==
    [stats |-> [tests |-> 2, passes |-> 0, failures |-> 2, testsRegistered |-> 2],
     results |-> << [title |-> Str("Admin Panel"),
                     suites |-> << [title |-> Str("Users"),
                                    tests |-> <<TestEnriched, TestNoErr>>] >>] >>,
     meta |-> Str("meta-admin")]

\* no candidate
ReportGreen ==
    [stats |-> [tests |-> 2, passes |-> 1, pending |-> 1, testsRegistered |-> 2],
     results |-> << [title |-> Str(""), file |-> Str("cypress/e2e/login.cy.js"),
                     tests |-> <<TestPassed, TestPending>>] >>,
     meta |-> Str("meta-green")]

\* valid JSON without results
ReportNoResults == [stats |-> NoStats]

FileContents ==
    {Json(ReportLogin), Json(ReportAdmin), Json(ReportGreen),
     Json(ReportNoResults), Garbage}

PartNames == {"results.json", "login_results.json"}

\* a directory of parts, each the report of another spec file, or an empty
\* one next to the fallback report
Directories ==
    {d \in UNION {[S -> FileContents] : S \in (SUBSET PartNames) \ {{}}} :
        \A p, q \in DOMAIN d : d[p] = d[q] => p = q}
    \cup UNION {[S -> FileContents] : S \in SUBSET {fallbackReport}}

(***************************************************************************)
(* What the provider can answer to one chatCompletion request.             *)
(***************************************************************************)
GoodData ==
    [summary |-> Str("Login redirect never happens after submit."),
     humanError |-> Str("The page did not change after login."),
     testRootCause |-> Str("Test logic appears sound."),
     productRootCause |-> Str("Redirect handler is not invoked."),
     bugEffect |-> Str("Users cannot sign in."),
     inferredExpected |-> Str("The app should redirect to the dashboard."),
     recommendation |-> Str("Fix the Product: wire the redirect after a successful login response and keep the test as is."),
     severity |-> Str("High"),
     confidence |-> Num(80),
     tags |-> Arr(<<"auth", "navigation">>)]

RawGood == <<Text, LBrace, Members(GoodData), RBrace, Text>>
RawEmptyObject == <<LBrace, RBrace>>
RawNoJson == <<Text>>
RawTwoObjects == <<LBrace, Members(GoodData), RBrace, Text, LBrace, RBrace>>
RawBadSeverity == <<LBrace, Members([severity |-> Num(3)]), RBrace>>

\* a rejected or timed out request, a response without content, some text
Responses ==
    {[kind |-> "error"], [kind |-> "empty"]}
    \cup {[kind |-> "content", raw |-> r] :
             r \in {RawGood, RawNoJson, RawTwoObjects, RawBadSeverity}}

(***************************************************************************)
(* State.                                                                  *)
(***************************************************************************)
VARIABLES
    hfKey,       \* an API key is in the environment (hf is not null)
    disk,        \* the files that exist, by path
    pc,          \* where runPipeline stands
    run,         \* which execution of the script this is
    files,       \* the report parts found by the second glob
    fileIdx,     \* the part being processed
    report,      \* the parsed report of that part
    candidates,  \* its failed tests without ai, in extraction order
    candIdx,     \* the candidate being enriched
    modelIdx,    \* the model getAiInsight is at
    callLog,     \* the chatCompletion requests issued in this run
    selected,    \* how many candidates this run has selected
    attempted,   \* candidates of this part getAiInsight was called for
    fellBack,    \* candidates of this part whose getAiInsight threw
    exhausted,   \* those of them for which every model failed
    writeFailed, \* a writeJson of this run threw
    prevClean,   \* no writeJson of the previous run threw
    prevDisk,    \* the files as the previous run left them
    warned,      \* the cause line 256 logged last in the attempt in progress
    writeErrors, \* the parts for which line 371 reported a failed write
    reads,       \* how often this run has read each file
    writes,      \* how often this run has called writeJson for each file
    mpc,         \* where getResults stands
    mfiles,      \* the parts getResults found
    midx,        \* the part getResults is at
    master,      \* the report getResults accumulates
    vin,         \* a raw text and the test it is about
    vout,        \* what validateAndSanitize made of it
    rpc,         \* where the rename step stands when it is run on its own
    rpass,       \* which pass of the rename step this is
    rfiles,      \* what the first glob of that pass returned
    ridx,        \* the file the loop over rawFiles is at
    onceNames,   \* the file names the first pass left
    executions   \* how often the metrics script has been executed

pipeVars == <<hfKey, disk, pc, run, files, fileIdx, report, candidates, candIdx,
              modelIdx, callLog, selected, attempted, fellBack, exhausted,
              writeFailed, prevClean, prevDisk, warned, writeErrors,
              reads, writes>>
mergeVars == <<mpc, mfiles, midx, master>>
validatorVars == <<vin, vout>>
renameVars == <<rpc, rpass, rfiles, ridx, onceNames>>
metricsVars == <<executions>>
vars == <<pipeVars, mergeVars, validatorVars, renameVars, metricsVars>>

NoInput == [raw |-> <<>>, test |-> EmptyObject]
NoOutput == [ok |-> FALSE, err |-> "not called"]

PipeIdle ==
    /\ pc = "off" /\ run = 0 /\ hfKey = FALSE
    /\ files = <<>> /\ fileIdx = 0 /\ report = EmptyObject
    /\ candidates = <<>> /\ candIdx = 0 /\ modelIdx = 0
    /\ callLog = <<>> /\ selected = 0
    /\ attempted = {} /\ fellBack = {} /\ exhausted = {}
    /\ writeFailed = FALSE /\ prevClean = FALSE /\ prevDisk = <<>>
    /\ warned = "" /\ writeErrors = {}
    /\ reads = <<>> /\ writes = <<>>

MergeIdle == mpc = "off" /\ mfiles = <<>> /\ midx = 0 /\ master = EmptyObject

ValidatorIdle == vin = NoInput /\ vout = NoOutput

RenameIdle ==
    rpc = "off" /\ rpass = 0 /\ rfiles = <<>> /\ ridx = 0 /\ onceNames = {}

MetricsIdle == executions = 0

\* no file has been read or written yet
NoAccess(fs) == [p \in DOMAIN fs |-> 0]

(***************************************************************************)
(* MAIN PIPELINE                                                           *)
(***************************************************************************)
Init ==
    /\ hfKey \in BOOLEAN
    /\ disk \in Directories
    /\ pc = "start" /\ run = 1
    /\ files = <<>> /\ fileIdx = 0 /\ report = EmptyObject
    /\ candidates = <<>> /\ candIdx = 0 /\ modelIdx = 0
    /\ callLog = <<>> /\ selected = 0
    /\ attempted = {} /\ fellBack = {} /\ exhausted = {}
    /\ writeFailed = FALSE /\ prevClean = FALSE /\ prevDisk = <<>>
    /\ warned = "" /\ writeErrors = {}
    /\ reads = NoAccess(disk) /\ writes = NoAccess(disk)
    /\ MergeIdle /\ ValidatorIdle /\ RenameIdle /\ MetricsIdle

\* where the loop over the parts goes after part i of n
AfterFile(i, n) ==
    IF i < n THEN [pc |-> "file", fileIdx |-> i + 1]
    ELSE [pc |-> "done", fileIdx |-> i]

\* AfterCandidate with the report written as soon as a candidate has its ai
AfterCandidateSaving(i, n) == [pc |-> "persist", candIdx |-> i]

\* where the loop over the candidates goes after candidate i of n
AfterCandidate(i, n) ==
    IF i < n THEN [pc |-> "candidate", candIdx |-> i + 1]
    ELSE [pc |-> "persist", candIdx |-> i]

\* AfterModelFailure going on with the last model of the list
AfterModelFailureLast(k, n) ==
    IF k < n THEN [pc |-> "sleep", modelIdx |-> n]
    ELSE [pc |-> "exhausted", modelIdx |-> k]

\* AfterModelFailure with the catch of lines 255-258 rethrowing
AfterModelFailureRethrow(k, n) == [pc |-> "exhausted", modelIdx |-> k]

\* AfterModelFailure with the next request issued without the wait
AfterModelFailureNoCooldown(k, n) ==
    IF k < n THEN [pc |-> "request", modelIdx |-> k + 1]
    ELSE [pc |-> "exhausted", modelIdx |-> k]

\* AfterModelFailure with the failed model requested again
AfterModelFailureRetry(k, n) == [pc |-> "sleep", modelIdx |-> k]

\* where the loop over the models goes when model k of n has failed
AfterModelFailure(k, n) ==
    IF k < n THEN [pc |-> "sleep", modelIdx |-> k + 1]
    ELSE [pc |-> "exhausted", modelIdx |-> k]

LeaveFile ==
    /\ pc' = AfterFile(fileIdx, Len(files)).pc
    /\ fileIdx' = AfterFile(fileIdx, Len(files)).fileIdx
    /\ report' = EmptyObject
    /\ candidates' = <<>>
    /\ candIdx' = 0
    /\ modelIdx' = 0
    /\ attempted' = {}
    /\ fellBack' = {}
    /\ exhausted' = {}

\* lines 282-305
RenameReports ==
    /\ pc = "start"
    /\ \E rawFiles \in Orderings(GlobNames(disk)) :
           /\ disk' = RenameAll(disk, rawFiles)
           /\ reads' = ReadsAll(disk, reads, rawFiles)
    /\ writes' = NoAccess(disk')
    /\ pc' = "discover"
    /\ UNCHANGED <<hfKey, run, files, fileIdx, report, candidates, candIdx,
                   modelIdx, callLog, selected, attempted, fellBack, exhausted,
                   writeFailed, prevClean, prevDisk,
                   warned, writeErrors>>
    /\ UNCHANGED <<mergeVars, validatorVars, renameVars, metricsVars>>

\* lines 307-318: without any part the fallback report is used if it
\* exists, and without that the process exits
DiscoverFiles ==
    /\ pc = "discover"
    /\ \E found \in Orderings(GlobNames(disk)) :
           files' = IF Len(found) = 0 /\ fallbackReport \in DOMAIN disk
                    THEN <<fallbackReport>> ELSE found
    /\ pc' = IF Len(files') = 0 THEN "done" ELSE "file"
    /\ fileIdx' = IF Len(files') = 0 THEN 0 ELSE 1
    /\ UNCHANGED <<hfKey, disk, run, report, candidates, candIdx,
                   modelIdx, callLog, selected, attempted, fellBack, exhausted,
                   writeFailed, prevClean, prevDisk,
                   warned, writeErrors>>
    /\ UNCHANGED <<reads, writes>>
    /\ UNCHANGED <<mergeVars, validatorVars, renameVars, metricsVars>>

\* lines 320-350: an invalid report and a report without candidates are
\* left without being written
LoadReport ==
    /\ pc = "file"
    /\ LET reportPath == files[fileIdx] IN
       IF IsInvalidReport(disk, reportPath)
       THEN LeaveFile /\ UNCHANGED selected
       ELSE \E found \in {ExtractCandidates(disk[reportPath].o)} :
            IF Len(found) = 0
            THEN LeaveFile /\ UNCHANGED selected
            ELSE /\ report' = disk[reportPath].o
                 /\ candidates' = found
                 /\ candIdx' = 1
                 /\ selected' = selected + Len(found)
                 /\ pc' = "candidate"
                 /\ UNCHANGED <<fileIdx, modelIdx, attempted, fellBack, exhausted>>
    /\ UNCHANGED <<hfKey, disk, run, files, callLog, writeFailed, prevClean, prevDisk,
                   warned, writeErrors>>
    /\ reads' = [reads EXCEPT ![files[fileIdx]] = @ + 1]
    /\ UNCHANGED writes
    /\ UNCHANGED <<mergeVars, validatorVars, renameVars, metricsVars>>

\* AfterFallback leaving the loop over the candidates
AfterFallbackBreak(i, n) == [pc |-> "persist", candIdx |-> i]

\* the catch of lines 360-363 falls through to the next turn of the loop
AfterFallback(i, n) == AfterCandidate(i, n)

\* the catch of lines 360-363
ConvertToFallback ==
    /\ \E test \in {TestAt(report, candidates[candIdx])} :
         \E ai \in {getFallbackInsight(test)} :
             report' = AssignAi(report, candidates[candIdx], ai)
    /\ fellBack' = fellBack \cup {candIdx}
    /\ warned' = ""
    /\ pc' = AfterFallback(candIdx, Len(candidates)).pc
    /\ candIdx' = AfterFallback(candIdx, Len(candidates)).candIdx

\* ClientMissing finding a client whatever the environment holds
ClientAlwaysThere(key) == FALSE

\* line 230: !hf, hf being null when no API key is in the environment
ClientMissing(key) == ~key

\* lines 355-357 and 229-231: getAiInsight is called and throws at once
\* when there is no client
StartInsight ==
    /\ pc = "candidate"
    /\ attempted' = attempted \cup {candIdx}
    /\ IF ClientMissing(hfKey)
       THEN ConvertToFallback /\ UNCHANGED modelIdx
       ELSE /\ modelIdx' = 1
            /\ pc' = "request"
            /\ UNCHANGED <<report, fellBack, candIdx, warned>>
    /\ UNCHANGED <<hfKey, disk, run, files, fileIdx, candidates, callLog,
                   selected, exhausted, writeFailed, prevClean, prevDisk,
                   writeErrors>>
    /\ UNCHANGED <<reads, writes>>
    /\ UNCHANGED <<mergeVars, validatorVars, renameVars, metricsVars>>

\* sleep whose promise is never resolved
sleepNeverResolves == "sleep"

\* where getAiInsight goes on when the promise of sleep(ms) resolves
sleep == "request"

\* line 236: the rate limiting buffer before every model but the first
Cooldown ==
    /\ pc = "sleep"
    /\ pc' = sleep
    /\ UNCHANGED <<hfKey, disk, run, files, fileIdx, report, candidates, candIdx,
                   modelIdx, callLog, selected, attempted, fellBack, exhausted,
                   writeFailed, prevClean, prevDisk,
                   warned, writeErrors>>
    /\ UNCHANGED <<reads, writes>>
    /\ UNCHANGED <<mergeVars, validatorVars, renameVars, metricsVars>>

\* lines 238-246: the request goes out
CallModel ==
    /\ pc = "request"
    /\ callLog' = Append(callLog, [file |-> files[fileIdx], cand |-> candIdx,
                                   model |-> modelIdx, outcome |-> "pending"])
    /\ pc' = "await"
    /\ UNCHANGED <<hfKey, disk, run, files, fileIdx, report, candidates, candIdx,
                   modelIdx, selected, attempted, fellBack, exhausted,
                   writeFailed, prevClean, prevDisk,
                   warned, writeErrors>>
    /\ UNCHANGED <<reads, writes>>
    /\ UNCHANGED <<mergeVars, validatorVars, renameVars, metricsVars>>

\* HandleResponse stamping the first model of the list
HandleResponseFirstModel(resp, test, model) ==
    LET stamped(res) ==
            IF res.ok
            THEN [ok |-> TRUE, value |->
                     [k \in DOMAIN res.value \cup {"modelUsed"} |->
                         IF k = "modelUsed" THEN Str(models[1]) ELSE res.value[k]]]
            ELSE res
    IN  IF resp.kind # "content" THEN [ok |-> FALSE, err |-> resp.kind]
        ELSE With(validateAndSanitize(resp.raw, test), stamped)

\* what lines 248-253 make of a response: the enriched Insight, or a throw
HandleResponse(resp, test, model) ==
    LET stamped(res) ==
            IF res.ok
            THEN [ok |-> TRUE, value |->
                     [k \in DOMAIN res.value \cup {"modelUsed"} |->
                         IF k = "modelUsed" THEN Str(model) ELSE res.value[k]]]
            ELSE res
    IN  IF resp.kind # "content" THEN [ok |-> FALSE, err |-> resp.kind]
        ELSE With(validateAndSanitize(resp.raw, test), stamped)

\* Settle with the request left unawaited: its promise is never looked at
SettleUnawaited(log, outcome) == log

\* the request issued last has settled
Settle(log, outcome) == [log EXCEPT ![Len(log)].outcome = outcome]

\* lines 248-258: the request settles; a success ends getAiInsight and
\* line 357 assigns it, a failure is logged and the loop goes on
ModelResponds ==
    /\ pc = "await"
    /\ \E resp \in Responses :
         \E res \in {HandleResponse(resp, TestAt(report, candidates[candIdx]),
                                     models[modelIdx])} :
             IF res.ok
             THEN /\ report' = AssignAi(report, candidates[candIdx], res.value)
                  /\ callLog' = Settle(callLog, "ok")
                  /\ warned' = ""
                  /\ pc' = AfterCandidate(candIdx, Len(candidates)).pc
                  /\ candIdx' = AfterCandidate(candIdx, Len(candidates)).candIdx
                  /\ UNCHANGED modelIdx
             ELSE /\ callLog' = Settle(callLog, "failed")
                  /\ warned' = res.err
                  /\ pc' = AfterModelFailure(modelIdx, Len(models)).pc
                  /\ modelIdx' = AfterModelFailure(modelIdx, Len(models)).modelIdx
                  /\ UNCHANGED <<report, candIdx>>
    /\ UNCHANGED <<hfKey, disk, run, files, fileIdx, candidates,
                   selected, attempted, fellBack, exhausted,
                   writeFailed, prevClean, prevDisk, writeErrors>>
    /\ UNCHANGED <<reads, writes>>
    /\ UNCHANGED <<mergeVars, validatorVars, renameVars, metricsVars>>

\* line 260 and the catch of lines 360-363
AllModelsFailed ==
    /\ pc = "exhausted"
    /\ exhausted' = exhausted \cup {candIdx}
    /\ ConvertToFallback
    /\ UNCHANGED <<hfKey, disk, run, files, fileIdx, candidates, modelIdx,
                   callLog, selected, attempted, writeFailed, prevClean, prevDisk,
                   writeErrors>>
    /\ UNCHANGED <<reads, writes>>
    /\ UNCHANGED <<mergeVars, validatorVars, renameVars, metricsVars>>

\* AfterWrite letting the error of a failed write end the run
AfterWriteAbort(outcome, i, n) ==
    IF outcome = "written" THEN AfterFile(i, n) ELSE [pc |-> "done", fileIdx |-> i]

\* the catch of lines 370-372 falls through to the next turn of the loop
AfterWrite(outcome, i, n) == AfterFile(i, n)

\* lines 366-373: writeFileSync writes the report, or throws before it has
\* touched the file, or throws with a part of the text written
SaveReport ==
    /\ pc = "persist"
    /\ \E outcome \in {"written", "refused", "partial"} :
         /\ disk' = CASE outcome = "written" ->
                           [disk EXCEPT ![files[fileIdx]] = writeJson(report)]
                      [] outcome = "partial" ->
                           [disk EXCEPT ![files[fileIdx]] = Garbage]
                      [] OTHER -> disk
         /\ writeFailed' = (writeFailed \/ outcome # "written")
         /\ writeErrors' = IF outcome = "written" THEN writeErrors
                            ELSE writeErrors \cup {files[fileIdx]}
         /\ pc' = AfterWrite(outcome, fileIdx, Len(files)).pc
         /\ fileIdx' = AfterWrite(outcome, fileIdx, Len(files)).fileIdx
    /\ report' = EmptyObject
    /\ candidates' = <<>>
    /\ candIdx' = 0
    /\ modelIdx' = 0
    /\ attempted' = {}
    /\ fellBack' = {}
    /\ exhausted' = {}
    /\ UNCHANGED <<hfKey, run, files, callLog, selected, prevClean, prevDisk,
                   warned>>
    /\ writes' = [writes EXCEPT ![files[fileIdx]] = @ + 1]
    /\ UNCHANGED reads
    /\ UNCHANGED <<mergeVars, validatorVars, renameVars, metricsVars>>

\* the script is executed again on the files the run before left
Rerun ==
    /\ pc = "done"
    /\ run < MaxRuns
    /\ run' = run + 1
    /\ pc' = "start"
    /\ prevClean' = ~writeFailed
    /\ prevDisk' = disk
    /\ writeFailed' = FALSE
    /\ writeErrors' = {}
    /\ callLog' = <<>>
    /\ selected' = 0
    /\ files' = <<>>
    /\ fileIdx' = 0
    /\ UNCHANGED <<hfKey, disk, report, candidates, candIdx, modelIdx,
                   attempted, fellBack, exhausted, warned>>
    /\ reads' = NoAccess(disk)
    /\ writes' = NoAccess(disk)
    /\ UNCHANGED <<mergeVars, validatorVars, renameVars, metricsVars>>

Next ==
    \/ RenameReports
    \/ DiscoverFiles
    \/ LoadReport
    \/ StartInsight
    \/ Cooldown
    \/ CallModel
    \/ ModelResponds
    \/ AllModelsFailed
    \/ SaveReport
    \/ Rerun

Spec == Init /\ [][Next]_vars

(***************************************************************************)
(* getResults of renderHtmlReport.js: the merge of the report parts.       *)
(* Percentages are kept in thousandths of a percent, cut off below that.   *)
(***************************************************************************)
AdditiveCounters ==
    {"suites", "tests", "passes", "pending", "failures", "duration",
     "testsRegistered", "skipped"}

\* lines 49-58 (the dates and the two has-flags are left out)
NewMaster ==
    [stats |-> [suites |-> 0, tests |-> 0, passes |-> 0, pending |-> 0,
                failures |-> 0, duration |-> 0, testsRegistered |-> 0,
                passPercent |-> 0, pendingPercent |-> 0, other |-> 0,
                skipped |-> 0],
     results |-> <<>>,
     meta |-> Object(EmptyObject)]

\* data.stats.counter || 0
CounterOrZero(stats, k) == IF k \in DOMAIN stats THEN stats[k] ELSE 0

\* AddCounter assigning instead of adding
AddCounterOverwrite(sum, stats, k) == IF k \in DOMAIN stats THEN stats[k] ELSE 0

\* master.stats.counter += data.stats.counter || 0
AddCounter(sum, stats, k) == sum + CounterOrZero(stats, k)

\* lines 64-71
MergeStats(mstats, stats) ==
    [k \in DOMAIN mstats |->
        IF k \in AdditiveCounters THEN AddCounter(mstats[k], stats, k)
        ELSE mstats[k]]

\* (part / testsRegistered) * 100
PercentOf(part, stats) == (part * 100000) \div stats.testsRegistered

\* Recalculate dividing by tests instead of testsRegistered
RecalculateByTests(mstats) ==
    IF mstats.tests > 0
    THEN [mstats EXCEPT !.passPercent = (mstats.passes * 100000) \div mstats.tests,
                        !.pendingPercent = (mstats.pending * 100000) \div mstats.tests]
    ELSE mstats

\* lines 83-86
Recalculate(mstats) ==
    IF mstats.testsRegistered > 0
    THEN [mstats EXCEPT !.passPercent = PercentOf(mstats.passes, mstats),
                        !.pendingPercent = PercentOf(mstats.pending, mstats)]
    ELSE mstats

\* lines 60-80 for one part whose text parsed and has stats
MergePart(m, data) ==
    [stats |-> MergeStats(m.stats, data.stats),
     results |-> IF "results" \in DOMAIN data
                 THEN m.results \o data.results ELSE m.results,
     meta |-> Get(data, "meta")]

\* JSON.parse throws on the text, or data.stats.suites on a missing stats
PartThrows(content) == content.kind # "json" \/ "stats" \notin DOMAIN content.o

(***************************************************************************)
(* The parts getResults is run on.                                         *)
(***************************************************************************)
\* parts whose counters decide the percentages
PercentParts ==
    {[stats |-> [tests |-> r, passes |-> p, pending |-> MaxCount - p,
                 testsRegistered |-> r],
      meta |-> Str("percent")] : r \in 0..MaxCount, p \in 0..MaxCount}

\* parts that carry every additive counter, each with its own value
FullParts ==
    {[stats |-> [suites |-> c, tests |-> 4 * c, passes |-> 2 * c,
                 pending |-> c, failures |-> c + 1, duration |-> 100 * c,
                 testsRegistered |-> 5 * c, skipped |-> c + 2,
                 passPercent |-> 40000, pendingPercent |-> 20000],
      results |-> <<[title |-> Str("full")]>>,
      meta |-> Str("full")] : c \in 1..MaxCount}

\* the two parts of the scenario: nothing but tests and passes
ScenarioPartA == [stats |-> [tests |-> 5, passes |-> 5]]
ScenarioPartB == [stats |-> [tests |-> 3, passes |-> 1]]

\* a part without a stats block
PartNoStats == [results |-> <<[title |-> Str("bare")]>>]

MergeContents ==
    {Json(o) : o \in PercentParts \cup FullParts
                     \cup {ScenarioPartA, ScenarioPartB, PartNoStats}}
    \cup {Garbage}

MergeNames == <<"a_results.json", "b_results.json", "c_results.json">>

MergeDirectories ==
    UNION {[{MergeNames[i] : i \in 1..n} -> MergeContents] : n \in 0..MaxFragments}

resultsPath == "../results.json"

MergeInit ==
    /\ disk \in MergeDirectories
           \cup {[p \in {resultsPath} |-> c] : c \in MergeContents}
    /\ mpc = "start" /\ mfiles = <<>> /\ midx = 0 /\ master = EmptyObject
    /\ PipeIdle /\ ValidatorIdle /\ RenameIdle /\ MetricsIdle

\* lines 34-58: without parts the whole results.json is returned as it is
\* parsed, or null; baseResults lies in the globbed folder, so it cannot
\* exist when the glob is empty
ScanParts ==
    /\ mpc = "start"
    /\ \E found \in Orderings(GlobNames(disk)) :
         IF Len(found) = 0
         THEN /\ mfiles' = <<>>
              /\ midx' = 0
              /\ IF resultsPath \in DOMAIN disk
                 THEN IF disk[resultsPath].kind = "json"
                      THEN mpc' = "returned" /\ master' = disk[resultsPath].o
                      ELSE mpc' = "threw" /\ master' = EmptyObject
                 ELSE mpc' = "returned null" /\ master' = EmptyObject
         ELSE /\ mfiles' = found
              /\ midx' = 1
              /\ master' = NewMaster
              /\ mpc' = "merging"
    /\ UNCHANGED <<pipeVars, validatorVars, renameVars, metricsVars>>

\* MergeOrThrow with a catch that drops the part
MergeOrSkip(m, content) ==
    IF PartThrows(content) THEN [threw |-> FALSE, master |-> m]
    ELSE [threw |-> FALSE, master |-> MergePart(m, content.o)]

\* lines 61-79 for one part: nothing catches what JSON.parse throws
MergeOrThrow(m, content) ==
    IF PartThrows(content) THEN [threw |-> TRUE, master |-> m]
    ELSE [threw |-> FALSE, master |-> MergePart(m, content.o)]

\* lines 60-88: one turn of files.forEach, and after the last one the
\* percentages and the return
MergeNextPart ==
    /\ mpc = "merging"
    /\ \E turn \in {MergeOrThrow(master, disk[mfiles[midx]])} :
       IF turn.threw
       THEN /\ mpc' = "threw"
            /\ UNCHANGED <<master, midx>>
       ELSE LET merged == turn.master IN
            IF midx < Len(mfiles)
            THEN /\ master' = merged
                 /\ midx' = midx + 1
                 /\ UNCHANGED mpc
            ELSE /\ master' = [merged EXCEPT !.stats = Recalculate(@)]
                 /\ mpc' = "returned"
                 /\ UNCHANGED midx
    /\ UNCHANGED mfiles
    /\ UNCHANGED <<pipeVars, validatorVars, renameVars, metricsVars>>

MergeNext == ScanParts \/ MergeNextPart

MergeSpec == MergeInit /\ [][MergeNext]_vars

(***************************************************************************)
(* validateAndSanitize on its own.                                         *)
(***************************************************************************)
InsightFields ==
    {"summary", "humanError", "testRootCause", "productRootCause", "bugEffect",
     "inferredExpected", "recommendation", "severity", "confidence", "tags"}

\* the values a model can put under a key; Undefined stands for no key
FieldValues ==
    {Undefined, Null, Str(""), Str("  \n "), Str("Retry the login..."),
     Str("Fix the Product: wire the redirect after login and keep the test as is for now please, then rerun....."),
     Str("CRITICAL"), Num(0), Num(7), Num(150), Bool(TRUE), Arr(<<>>),
     Arr(<<"a", "b", "c", "d", "e", "f">>), Object(EmptyObject)}

WithField(o, f, v) ==
    IF v = Undefined THEN [k \in DOMAIN o \ {f} |-> o[k]]
    ELSE [k \in DOMAIN o \cup {f} |-> IF k = f THEN v ELSE o[k]]

ValidatorData ==
    {WithField(base, f, v) :
        base \in {EmptyObject, GoodData}, f \in InsightFields, v \in FieldValues}

\* the object alone, inside commentary, and followed by a second object
Wrappings(o) ==
    {<<LBrace, Members(o), RBrace>>,
     <<Text, LBrace, Members(o), RBrace, Text>>,
     <<LBrace, Members(o), RBrace, Text, LBrace, RBrace>>}

TestEverything ==
    [title |-> Str("login form contains the fetch button"), state |-> Str("failed"),
     err |-> [message |-> Str("TIMEOUT of 4000ms exceeded: expected 500")]]

ValidatorTests == {TestTimedOut, TestLegacyFail, TestNoErr, TestEverything}

ValidatorInputs ==
    {[raw |-> r, test |-> t] :
        r \in UNION {Wrappings(o) : o \in ValidatorData}
              \cup {<<Digits(42)>>, <<NullLit>>, <<Text>>, <<LBrace, Text, RBrace>>},
        t \in ValidatorTests}

ValidatorInit ==
    /\ vin \in ValidatorInputs
    /\ vout = NoOutput
    /\ disk = <<>>
    /\ PipeIdle /\ MergeIdle /\ RenameIdle /\ MetricsIdle

Validate ==
    /\ vout = NoOutput
    /\ vout' = validateAndSanitize(vin.raw, vin.test)
    /\ UNCHANGED vin
    /\ UNCHANGED <<pipeVars, mergeVars, renameVars, metricsVars>>

ValidatorNext == Validate

ValidatorSpec == ValidatorInit /\ [][ValidatorNext]_vars

(***************************************************************************)
(* The rename step of runPipeline on its own, one turn of its loop at a    *)
(* time, run twice over one directory.                                     *)
(***************************************************************************)
\* a report of a spec file whose name starts like a generic report name
ReportResultsTable ==
    [stats |-> NoStats,
     results |-> << [title |-> Str(""), file |-> Str("cypress/e2e/results_table.cy.js"),
                     tests |-> <<TestPassed>>] >>]

RenameContents ==
    {Json(ReportLogin), Json(ReportAdmin), Json(ReportResultsTable), Garbage}

RenameNames ==
    {"results.json", "results_1.json", "results_table_results.json",
     "login_results.json"}

RenameDirectories ==
    UNION {[S -> RenameContents] :
              S \in {T \in SUBSET RenameNames :
                        Cardinality(T) >= 1 /\ Cardinality(T) <= MaxFragments}}

RenameInit ==
    /\ disk \in RenameDirectories
    /\ rpc = "glob" /\ rpass = 1 /\ rfiles = <<>> /\ ridx = 0 /\ onceNames = {}
    /\ PipeIdle /\ MergeIdle /\ ValidatorIdle /\ MetricsIdle

\* lines 283-284
RenameGlob ==
    /\ rpc = "glob"
    /\ \E found \in Orderings(GlobNames(disk)) : rfiles' = found
    /\ ridx' = 1
    /\ rpc' = "loop"
    /\ UNCHANGED <<rpass, onceNames>>
    /\ UNCHANGED <<pipeVars, mergeVars, validatorVars, metricsVars>>

\* lines 286-305: one turn of the loop; after the last turn of the first
\* pass the step is run again
RenameTurn ==
    /\ rpc = "loop"
    /\ disk' = RenameOne(disk, rfiles[ridx])
    /\ IF ridx < Len(rfiles)
       THEN /\ ridx' = ridx + 1
            /\ UNCHANGED <<rpc, rpass, onceNames>>
       ELSE IF rpass = 1
            THEN /\ rpc' = "glob"
                 /\ rpass' = 2
                 /\ onceNames' = DOMAIN disk'
                 /\ UNCHANGED ridx
            ELSE /\ rpc' = "done"
                 /\ UNCHANGED <<rpass, ridx, onceNames>>
    /\ UNCHANGED rfiles
    /\ UNCHANGED <<hfKey, pc, run, files, fileIdx, report, candidates, candIdx,
                   modelIdx, callLog, selected, attempted, fellBack, exhausted,
                   writeFailed, prevClean, prevDisk,
                   warned, writeErrors, reads, writes>>
    /\ UNCHANGED <<mergeVars, validatorVars, metricsVars>>

RenameNext == RenameGlob \/ RenameTurn

RenameSpec == RenameInit /\ [][RenameNext]_vars

(***************************************************************************)
(* The event loop runs every continuation that is ready, and every request *)
(* to the provider settles.                                                *)
(***************************************************************************)
FairSpec == Spec /\ WF_vars(Next)

(***************************************************************************)
(* The event loop runs every continuation that is ready, and the provider  *)
(* is free to leave a request without an answer: the code starts no timer  *)
(* next to the request, so nothing but the provider settles it.            *)
(***************************************************************************)
ProgramStep ==
    \/ RenameReports
    \/ DiscoverFiles
    \/ LoadReport
    \/ StartInsight
    \/ Cooldown
    \/ CallModel
    \/ AllModelsFailed
    \/ SaveReport
    \/ Rerun

SilentProviderSpec == Spec /\ WF_vars(ProgramStep)

(***************************************************************************)
(* generateMetrics: every execution appends a record of the run to         *)
(* dashboard/data/runs.json and keeps the last MAX_RUNS records.           *)
(***************************************************************************)
MAX_RUNS == 31

MaxExecutions == 33

mochawesomePath == "cypress/reports/results.json"
outFile == "dashboard/data/runs.json"

\* a file whose text is a JSON array
JsonList(a) == [kind |-> "array", a |-> a]

\* safeReadJson: null when the file is missing or cannot be parsed
safeReadJson(fs, filePath) ==
    IF filePath \in DOMAIN fs /\ fs[filePath].kind # "garbage"
    THEN fs[filePath] ELSE [kind |-> "null"]

\* num(stats.key): 0 for what is not a finite number
num(stats, k) == IF k \in DOMAIN stats THEN stats[k] ELSE 0

\* Math.round(a / b) for a >= 0 and b > 0
RoundedQuotient(a, b) == (2 * a + b) \div (2 * b)

\* the titles walkSuites collects: tests of a suite, then its suites
TitlesWhere(mocha, Holds(_)) ==
    IF "results" \notin DOMAIN mocha THEN <<>>
    ELSE LET all == AllTests(mocha)
             tests == [i \in 1..Len(all) |-> TestAt(mocha, all[i])]
             kept == SelectSeq(tests, Holds)
         IN  [i \in 1..Len(kept) |-> Get(kept[i], "title")]

extractFromMochawesome(mocha) ==
    LET stats == IF "stats" \in DOMAIN mocha THEN mocha.stats ELSE EmptyObject
        tests == num(stats, "tests")
        passes == num(stats, "passes")
    IN  [tests |-> tests,
         passes |-> passes,
         failures |-> num(stats, "failures"),
         pending |-> num(stats, "pending"),
         durationSec |-> RoundedQuotient(num(stats, "duration"), 1000),
         passRate |-> IF tests > 0 THEN RoundedQuotient(passes * 100, tests) ELSE 0,
         passedTests |-> TitlesWhere(mocha,
             LAMBDA t : Get(t, "state") = Str("passed") \/ Get(t, "pass") = Bool(TRUE)),
         failedTests |-> TitlesWhere(mocha,
             LAMBDA t : Get(t, "state") = Str("failed") \/ Get(t, "fail") = Bool(TRUE))]

\* lines 464-473: the record of a run without a report
NothingExtracted ==
    [tests |-> 0, passes |-> 0, failures |-> 0, pending |-> 0,
     durationSec |-> 0, passRate |-> 0]

\* lines 476-482 (the identifiers of the CI run are left out); ts is the
\* time of the execution
RunRecord(ts, extracted) ==
    [k \in DOMAIN extracted \cup {"ts"} |-> IF k = "ts" THEN ts ELSE extracted[k]]

\* runs.slice(Math.max(0, runs.length - MAX_RUNS))
KeepLast(runs, max) ==
    SubSeq(runs, (IF Len(runs) > max THEN Len(runs) - max ELSE 0) + 1, Len(runs))

MetricsDirectories ==
    {[p \in {mochawesomePath, outFile} |-> IF p = outFile THEN out ELSE mocha] :
        mocha \in {Garbage, Json(ReportLogin), Json(ReportNoResults)},
        out \in {Garbage, Json(EmptyObject), JsonList(<<>>)}}
    \cup {[p \in {mochawesomePath} |-> mocha] :
             mocha \in {Garbage, Json(ReportLogin)}}
    \cup {[p \in {outFile} |-> JsonList(<<>>)], <<>>}

MetricsInit ==
    /\ disk \in MetricsDirectories
    /\ executions = 0
    /\ PipeIdle /\ MergeIdle /\ ValidatorIdle /\ RenameIdle

\* lines 460-500: one execution of the script
MetricsMain ==
    /\ executions < MaxExecutions
    /\ executions' = executions + 1
    /\ \E mocha \in {safeReadJson(disk, mochawesomePath)} :
       \E existing \in {safeReadJson(disk, outFile)} :
       \E extracted \in {IF mocha.kind = "json"
                         THEN extractFromMochawesome(mocha.o)
                         ELSE NothingExtracted} :
       \E runs \in {IF existing.kind = "array" THEN existing.a ELSE <<>>} :
       \E trimmed \in {KeepLast(Append(runs, RunRecord(executions', extracted)),
                                MAX_RUNS)} :
           disk' = [p \in DOMAIN disk \cup {outFile} |->
                       IF p = outFile THEN JsonList(trimmed) ELSE disk[p]]
    /\ UNCHANGED <<hfKey, pc, run, files, fileIdx, report, candidates, candIdx,
                   modelIdx, callLog, selected, attempted, fellBack, exhausted,
                   writeFailed, prevClean, prevDisk, warned, writeErrors,
                   reads, writes>>
    /\ UNCHANGED <<mergeVars, validatorVars, renameVars>>

MetricsNext == MetricsMain

MetricsSpec == MetricsInit /\ [][MetricsNext]_vars

(***************************************************************************)
(* Properties.                                                             *)
(***************************************************************************)
Range(f) == {f[i] : i \in DOMAIN f}

EnrichPcs == {"candidate", "sleep", "request", "await", "exhausted"}

IsFallbackInsight(ai) == "modelUsed" \notin DOMAIN ai

TestsOnDisk(p) ==
    IF disk[p].kind = "json" /\ "results" \in DOMAIN disk[p].o
    THEN {TestAt(disk[p].o, c) : c \in Range(AllTests(disk[p].o))}
    ELSE {}

\* C1: a run that follows a run whose reports were all written selects no
\* candidate, issues no provider request and leaves every file, and so
\* every ai field, as the run before left it
Idempotence ==
    (run > 1 /\ prevClean) =>
        /\ selected = 0
        /\ callLog = <<>>
        /\ disk = prevDisk

\* the second run has ended on a report in which the first run left an
\* Insight of a model and a fallback Insight
IdempotenceWitness ==
    /\ run = 2 /\ prevClean /\ pc = "done"
    /\ \E p \in DOMAIN disk : \E t1, t2 \in TestsOnDisk(p) :
          /\ "ai" \in DOMAIN t1 /\ Get(t1.ai, "modelUsed") = Str(models[2])
          /\ "ai" \in DOMAIN t2 /\ IsFallbackInsight(t2.ai)
                                /\ Get(t2.ai, "confidence") = Num(0)

\* C2: a candidate for which every model failed has an ai field with
\* confidence 0.0, in the report and in what writeJson makes of the report,
\* from the moment its model list is exhausted to the end of its file
FallbackGuarantee ==
    \A i \in exhausted :
        LET t == TestAt(report, candidates[i])
            w == TestAt(writeJson(report).o, candidates[i])
        IN  /\ "ai" \in DOMAIN t /\ Get(t.ai, "confidence") = Num(0)
            /\ "ai" \in DOMAIN w /\ Get(w.ai, "confidence") = Num(0)

\* the report is about to be written with a candidate all models failed for
FallbackGuaranteeWitness ==
    /\ pc = "persist" /\ exhausted # {}
    /\ Len(SelectSeq(callLog, LAMBDA e : e.file = files[fileIdx]
                                         /\ e.cand \in exhausted)) >= Len(models)

IsolationState ==
    pc \in EnrichPcs \cup {"persist"} =>
        \A i \in 1..Len(candidates) :
            LET t == TestAt(report, candidates[i]) IN
            /\ (i < candIdx \/ pc = "persist") =>
                  /\ i \in attempted
                  /\ "ai" \in DOMAIN t
                  /\ i \in fellBack <=> IsFallbackInsight(t.ai)
            /\ (i > candIdx) => "ai" \notin DOMAIN t

StaysInLoop == pc \in EnrichPcs => pc' \in (EnrichPcs \cup {"persist"})

\* C3: a candidate whose attempt fails is the only one that gets the
\* fallback for it; every candidate before the one in progress was
\* attempted and has an ai field, at the save all of them, and the loop
\* over the candidates is left only for the save
Isolation ==
    /\ []IsolationState
    /\ [][StaysInLoop]_vars

\* the first candidate fell back and the one after it got a model's Insight
IsolationWitness ==
    /\ pc = "persist" /\ Len(candidates) >= 2
    /\ 1 \in exhausted
    /\ 2 \notin fellBack
    /\ \E k \in 1..Len(callLog) : callLog[k].cand = 2

\* C4: every run reaches the end, with the loop over the files at the last
\* of them, whatever the provider answers
Termination == (pc = "start") ~> (pc = "done" /\ fileIdx = Len(files))

\* a run has ended after two files, requests to the provider and a fallback
TerminationWitness ==
    /\ pc = "done" /\ Len(files) = 2 /\ fileIdx = 2
    /\ Len(callLog) > Len(models)

Total(k) ==
    LET RECURSIVE sumOver(_)
        sumOver(S) ==
            IF S = {} THEN 0
            ELSE LET p == CHOOSE q \in S : TRUE
                     st == disk[p].o.stats
                 IN  (IF k \in DOMAIN st THEN st[k] ELSE 0) + sumOver(S \ {p})
    IN  sumOver(GlobNames(disk))

\* C5: the merged report has, for every additive counter, the sum of the
\* parts' counters, and a passPercent that is the summed passes over the
\* summed testsRegistered times 100, or 0 when no test is registered
MergeAdditivity ==
    (mpc = "returned" /\ Len(mfiles) > 0) =>
        /\ \A k \in AdditiveCounters : master.stats[k] = Total(k)
        /\ IF Total("testsRegistered") = 0
           THEN master.stats.passPercent = 0
           ELSE /\ master.stats.passPercent * Total("testsRegistered")
                     <= Total("passes") * 100000
                /\ Total("passes") * 100000
                     < (master.stats.passPercent + 1) * Total("testsRegistered")

\* two parts with different counters were merged into a percentage that is
\* neither 0 nor 100
MergeAdditivityWitness ==
    /\ mpc = "returned" /\ Len(mfiles) = 2
    /\ disk[mfiles[1]] # disk[mfiles[2]]
    /\ master.stats.suites > 0
    /\ master.stats.passPercent > 0 /\ master.stats.passPercent < 100000

ScenarioMerged ==
    /\ mpc = "returned"
    /\ Len(mfiles) = 2
    /\ {disk[p] : p \in GlobNames(disk)} = {Json(ScenarioPartA), Json(ScenarioPartB)}

\* C6: merging {tests:5, passes:5} and {tests:3, passes:1} gives tests = 8,
\* passes = 6 and passPercent = 75.0
ScenarioPercent75 ==
    ScenarioMerged =>
        /\ master.stats.tests = 8
        /\ master.stats.passes = 6
        /\ master.stats.passPercent = 75000

\* C6 as amended: merging {tests:5, passes:5} and {tests:3, passes:1} gives
\* tests = 8, passes = 6 and, no testsRegistered being given, passPercent = 0
ScenarioPercentZero ==
    ScenarioMerged =>
        /\ master.stats.tests = 8
        /\ master.stats.passes = 6
        /\ master.stats.testsRegistered = 0
        /\ master.stats.passPercent = 0

ScenarioWitness == ScenarioMerged /\ master.stats.tests = 8

IsScenarioTest(t) ==
    /\ Get(t, "title") = Str("[auth] login redirects")
    /\ ErrMessage(t) = Str("Timed out retrying after 4000ms")

\* C7: without a credential the failing test "[auth] login redirects" with
\* the error "Timed out retrying after 4000ms" ends with a fallback Insight
\* of severity medium and confidence 0.0 whose tags contain "ai-unavailable"
\* and "timing"
NoCredentialScenario ==
    (~hfKey /\ pc = "persist") =>
        \A i \in 1..Len(candidates) :
            LET t == TestAt(report, candidates[i]) IN
            IsScenarioTest(t) =>
                /\ "ai" \in DOMAIN t
                /\ Get(t.ai, "severity") = Str("medium")
                /\ Get(t.ai, "confidence") = Num(0)
                /\ "ai-unavailable" \in Range(t.ai.tags.a)
                /\ "timing" \in Range(t.ai.tags.a)

IsFilled(o, f) ==
    /\ f \in DOMAIN o
    /\ o[f] \notin {Undefined, Str("")}

\* C8: whatever fields the object in the raw text has and whatever their
\* types are, an Insight that validateAndSanitize returns has every
\* required field, none of them undefined or an empty string
TotalDefaulting ==
    vout.ok => \A f \in InsightFields : IsFilled(vout.value, f)

\* an Insight was returned for an object with no summary and with fields
\* of the wrong type
TotalDefaultingWitness ==
    /\ vout.ok
    /\ \E i \in 1..Len(vin.raw) :
          /\ vin.raw[i].kind = "members"
          /\ "summary" \notin DOMAIN vin.raw[i].o
          /\ "humanError" \in DOMAIN vin.raw[i].o
          /\ vin.raw[i].o.humanError.t \in {"array", "number", "object"}

\* C9: every ai record the pipeline has attached, a model's or the
\* fallback, has a non-empty value for every required field and for
\* modelUsed
InsightComplete ==
    pc \in EnrichPcs \cup {"persist"} =>
        \A i \in 1..Len(candidates) :
            LET t == TestAt(report, candidates[i]) IN
            "ai" \in DOMAIN t =>
                \A f \in InsightFields \cup {"modelUsed"} : IsFilled(t.ai, f)

\* the error messages of ValidatorTests that contain "timeout" in some case
TimeoutMessages ==
    {Str("Timeout: expected cy.get to find the element"),
     Str("TIMEOUT of 4000ms exceeded: expected 500")}

NoTagsSupplied(raw) ==
    \A i \in 1..Len(raw) :
        raw[i].kind = "members" =>
            \/ "tags" \notin DOMAIN raw[i].o
            \/ raw[i].o.tags.t # "array"
            \/ raw[i].o.tags.a = <<>>

\* C10: when the error text contains "timeout" in any letter case and the
\* model gave no tags (none, not an array, or an empty one), the tags of
\* the returned Insight contain "timing"
TimeoutDerivesTiming ==
    (vout.ok /\ ErrMessage(vin.test) \in TimeoutMessages /\ NoTagsSupplied(vin.raw))
        => "timing" \in Range(vout.value.tags.a)

\* tags were derived for an upper-case TIMEOUT whose text fills all five
\* keyword buckets, the model's tags being an empty array
TimeoutDerivesTimingWitness ==
    /\ vout.ok
    /\ vin.test = TestEverything
    /\ \E i \in 1..Len(vin.raw) :
          /\ vin.raw[i].kind = "members"
          /\ "tags" \in DOMAIN vin.raw[i].o
          /\ vin.raw[i].o.tags = Arr(<<>>)
    /\ Len(vout.value.tags.a) = 4

\* C11: a second pass of the rename step leaves the file names of the
\* first pass, whatever the directory holds
RenameIdempotence == rpc = "done" => DOMAIN disk = onceNames

\* no turn of the rename loop changes or removes the contents found at a
\* path that exists before and after it, and none loses a file
RenameNeverOverwrites ==
    [][/\ \A p \in DOMAIN disk \cap DOMAIN disk' : disk'[p] = disk[p]
       /\ Cardinality(DOMAIN disk') = Cardinality(DOMAIN disk)]_vars

SameCandidate(e, f) == e.file = f.file /\ e.cand = f.cand

\* C12: the requests for a candidate go to the models in the order of the
\* list, one after the other: a request to a model other than the first
\* follows the failed request to the model before it for the same
\* candidate, the first model is asked once, and a request that succeeded
\* is the last one for its candidate
OrderedFallback ==
    \A j \in 1..Len(callLog) :
        LET e == callLog[j] IN
        /\ e.model \in 1..Len(models)
        /\ e.model = 1 => \A i \in 1..(j - 1) : ~SameCandidate(callLog[i], e)
        /\ e.model > 1 =>
              /\ j > 1
              /\ SameCandidate(callLog[j - 1], e)
              /\ callLog[j - 1].model = e.model - 1
              /\ callLog[j - 1].outcome = "failed"
        /\ e.outcome = "ok" =>
              \A i \in (j + 1)..Len(callLog) : ~SameCandidate(callLog[i], e)

\* the second model succeeded after the first had failed, and the next
\* candidate started with the first model again
OrderedFallbackWitness ==
    \E j \in 1..(Len(callLog) - 2) :
        /\ callLog[j].model = 1 /\ callLog[j].outcome = "failed"
        /\ callLog[j + 1].model = 2 /\ callLog[j + 1].outcome = "ok"
        /\ SameCandidate(callLog[j], callLog[j + 1])
        /\ callLog[j + 2].model = 1
        /\ ~SameCandidate(callLog[j], callLog[j + 2])

FailureCauses == {"error", "empty", "Malformed JSON response", "TypeError"}

\* a request settles with a failure
AttemptFails ==
    /\ pc = "await"
    /\ Len(callLog') = Len(callLog)
    /\ callLog[Len(callLog)].outcome = "pending"
    /\ callLog'[Len(callLog)].outcome = "failed"

\* after a failure the same candidate goes on with the next model
ProceedsWithNext ==
    /\ AttemptFails =>
          /\ warned' \in FailureCauses
          /\ candIdx' = candIdx /\ fellBack' = fellBack /\ report' = report
          /\ modelIdx < Len(models) => (pc' = "sleep" /\ modelIdx' = modelIdx + 1)
    /\ pc = "sleep" =>
          (pc' = "request" /\ modelIdx' = modelIdx /\ candIdx' = candIdx)
    /\ pc = "request" =>
          /\ pc' = "await"
          /\ callLog' = Append(callLog, [file |-> files[fileIdx], cand |-> candIdx,
                                         model |-> modelIdx, outcome |-> "pending"])

\* C13: whatever makes the attempt of a model fail (a rejected or timed out
\* request, empty content, text the validator rejects, a TypeError inside
\* the validator), the candidate is not given up: if a model remains, the
\* next request is for the same candidate and goes to the next model
FailureProceeds ==
    /\ [](pc \in {"sleep", "request", "await"} => modelIdx \in 1..Len(models))
    /\ [][ProceedsWithNext]_vars

\* the third model is being asked after a wrongly typed field made the
\* validator throw on the answer of the second
FailureProceedsWitness ==
    /\ pc = "await" /\ modelIdx = 3
    /\ warned = "TypeError"
    /\ callLog[Len(callLog)].model = 3
    /\ callLog[Len(callLog) - 1].outcome = "failed"

\* C14: a request that is not answered is given up after a time, so the
\* invoker does not wait for an answer for ever
CallTimesOut == (pc = "await") ~> (pc # "await")

\* the requests of this run for candidate i of the part in progress
CallsOf(i) ==
    SelectSeq(callLog, LAMBDA e : e.file = files[fileIdx] /\ e.cand = i)

AllModelsTriedAndFailed(i) ==
    /\ Len(CallsOf(i)) = Len(models)
    /\ \A k \in 1..Len(models) :
          CallsOf(i)[k].model = k /\ CallsOf(i)[k].outcome = "failed"

\* C15: getAiInsight throws "All AI models failed" for a candidate exactly
\* when every model of the list was asked for it and failed; the candidate
\* then has no Insight of a model
Exhaustion ==
    pc \in EnrichPcs \cup {"persist"} =>
        \A i \in 1..Len(candidates) :
            LET t == TestAt(report, candidates[i]) IN
            /\ (i \in exhausted \/ (pc = "exhausted" /\ i = candIdx))
                  <=> AllModelsTriedAndFailed(i)
            /\ (pc = "exhausted" /\ i = candIdx) => "ai" \notin DOMAIN t
            /\ i \in exhausted => ("ai" \in DOMAIN t /\ IsFallbackInsight(t.ai))

\* the throw is about to happen for the second candidate, the first one
\* having got the Insight of the third model
ExhaustionWitness ==
    /\ pc = "exhausted" /\ candIdx = 2
    /\ 1 \notin fellBack
    /\ Len(CallsOf(1)) = Len(models)
    /\ AllModelsTriedAndFailed(2)

\* C16: an Insight that getAiInsight returned has as modelUsed the
\* identifier of the model of the one request that succeeded for the
\* candidate, every request before that one having failed
StampedByFirstSuccess ==
    pc \in EnrichPcs \cup {"persist"} =>
        \A i \in 1..Len(candidates) :
            LET t == TestAt(report, candidates[i]) IN
            ("ai" \in DOMAIN t /\ i \notin fellBack) =>
                \E k \in 1..Len(CallsOf(i)) :
                    /\ CallsOf(i)[k].outcome = "ok"
                    /\ \A j \in 1..(k - 1) :
                          CallsOf(i)[j].outcome = "failed" /\ CallsOf(i)[j].model = j
                    /\ CallsOf(i)[k].model = k
                    /\ Get(t.ai, "modelUsed") = Str(models[k])

\* one candidate has the Insight of the second model, the other that of
\* the third
StampedByFirstSuccessWitness ==
    /\ pc = "persist" /\ Len(candidates) = 2 /\ fellBack = {}
    /\ Get(TestAt(report, candidates[1]).ai, "modelUsed") = Str(models[2])
    /\ Get(TestAt(report, candidates[2]).ai, "modelUsed") = Str(models[3])

\* C17: without an API key in the environment no request is issued in the
\* whole run: getAiInsight throws before the loop over the models, and
\* every candidate that was attempted fell back
NoCredentialNoCalls ==
    ~hfKey =>
        /\ callLog = <<>>
        /\ pc \notin {"sleep", "request", "await", "exhausted"}
        /\ modelIdx = 0
        /\ attempted \subseteq fellBack

\* a run without an API key has ended after two parts with candidates
NoCredentialNoCallsWitness ==
    /\ ~hfKey /\ pc = "done" /\ run = 1
    /\ Len(files) = 2 /\ selected = 3

IsFailed(t) == Truthy(Get(t, "fail")) \/ Get(t, "state") = Str("failed")

\* a suite's own tests come before those of its nested suites, the tests
\* of a suite in their order, and the suites in theirs
DepthFirstBefore(c, d) ==
    LET n == IF Len(c.suites) < Len(d.suites) THEN Len(c.suites) ELSE Len(d.suites)
        differ == {k \in 1..n : c.suites[k] # d.suites[k]}
    IN  IF differ # {}
        THEN LET k == CHOOSE m \in differ : \A l \in differ : m <= l
             IN  c.suites[k] < d.suites[k]
        ELSE IF Len(c.suites) = Len(d.suites) THEN c.test < d.test
        ELSE Len(c.suites) < Len(d.suites)

Without(t, k) == [f \in DOMAIN t \ {k} |-> t[f]]

\* C18: the candidates of a part are the tests of its report, at any depth,
\* that are failed (state 'failed' or the fail flag) and have no ai, in
\* depth-first order; they are the report's own tests: an ai assigned to a
\* candidate is in the report, and nothing else of the report changes
CandidateSelection ==
    pc \in EnrichPcs \cup {"persist"} =>
        LET loaded == disk[files[fileIdx]].o
            all == Range(AllTests(loaded))
        IN  /\ \A c \in all :
                  c \in Range(candidates)
                      <=> (IsFailed(TestAt(loaded, c)) /\ "ai" \notin DOMAIN TestAt(loaded, c))
            /\ Range(candidates) \subseteq all
            /\ \A a, b \in 1..Len(candidates) :
                  a < b => DepthFirstBefore(candidates[a], candidates[b])
            /\ Range(AllTests(report)) = all
            /\ \A c \in all \ Range(candidates) : TestAt(report, c) = TestAt(loaded, c)
            /\ \A i \in 1..Len(candidates) :
                  /\ Without(TestAt(report, candidates[i]), "ai")
                        = TestAt(loaded, candidates[i])
                  /\ (i < candIdx \/ pc = "persist")
                        => "ai" \in DOMAIN TestAt(report, candidates[i])

\* a failed test at the root of a result entry and one with the fail flag
\* in a nested suite were selected next to a passed test, and the first is
\* enriched
CandidateSelectionWitness ==
    /\ pc = "candidate" /\ candIdx = 2
    /\ candidates = << [suites |-> <<1>>, test |-> 2], [suites |-> <<1, 1>>, test |-> 1] >>
    /\ "ai" \in DOMAIN TestAt(report, candidates[1])
    /\ Get(TestAt(report, candidates[2]), "fail") = Bool(TRUE)

\* the report of part j has no candidate left, or cannot be read
Settled(j) ==
    \/ IsInvalidReport(disk, files[j])
    \/ ExtractCandidates(disk[files[j]].o) = <<>>

\* C19: a failed write is reported and the loop over the parts goes on:
\* every part the loop has left is enriched on disk unless its own write
\* failed or it cannot be read, and the run ends only after the last part
PersistFailureContinues ==
    /\ writeFailed <=> writeErrors # {}
    /\ writeErrors \subseteq Range(files)
    /\ pc = "done" => fileIdx = Len(files)
    /\ \A j \in 1..Len(files) :
          (j < fileIdx \/ pc = "done") => (files[j] \in writeErrors \/ Settled(j))

\* the write of the first part failed and the second part was enriched by
\* a model and written
PersistFailureContinuesWitness ==
    /\ pc = "done" /\ Len(files) = 2
    /\ writeErrors = {files[1]}
    /\ \E k \in 1..Len(callLog) :
          callLog[k].file = files[2] /\ callLog[k].outcome = "ok"
    /\ \E t \in TestsOnDisk(files[2]) :
          "ai" \in DOMAIN t /\ Get(t.ai, "modelUsed") = Str(models[1])
                            /\ IsFailed(t) /\ t # TestEnriched

\* C20: getResults returns a merged report only if every part it found is
\* valid JSON; with a part that is not, it throws, at the latest when the
\* loop comes to that part
ParseErrorIsFatal ==
    /\ (mpc = "returned" /\ Len(mfiles) > 0) =>
          \A p \in GlobNames(disk) : disk[p].kind = "json"
    /\ mpc = "merging" => \A j \in 1..(midx - 1) : disk[mfiles[j]].kind = "json"
    /\ (mpc = "threw" /\ Len(mfiles) > 0) => PartThrows(disk[mfiles[midx]])

\* the merge threw at a second part that is not JSON, after a first part
\* was added to the counters
ParseErrorIsFatalWitness ==
    /\ mpc = "threw" /\ Len(mfiles) = 2 /\ midx = 2
    /\ disk[mfiles[1]].kind = "json"
    /\ disk[mfiles[2]] = Garbage
    /\ master.stats.tests > 0

PositionIn(seq, x) == CHOOSE i \in 1..Len(seq) : seq[i] = x

\* request e goes out before request f in the order of the loops: by part,
\* then by candidate, then by model
IssuedInOrder(e, f) ==
    \/ PositionIn(files, e.file) < PositionIn(files, f.file)
    \/ /\ e.file = f.file
       /\ \/ e.cand < f.cand
          \/ e.cand = f.cand /\ e.model < f.model

\* C21: at most one request is without an answer, the one issued last for
\* the candidate and model in progress; one part at most is loaded, the
\* part the loop is at; and the requests of a run went out in the order of
\* the parts, of the candidates of a part, and of the models
SingleWorker ==
    /\ \A k \in 1..Len(callLog) :
          callLog[k].outcome = "pending" => (k = Len(callLog) /\ pc = "await")
    /\ pc = "await" =>
          /\ Len(callLog) > 0
          /\ callLog[Len(callLog)] =
                [file |-> files[fileIdx], cand |-> candIdx,
                 model |-> modelIdx, outcome |-> "pending"]
    /\ (report # EmptyObject) <=> (pc \in EnrichPcs \cup {"persist"})
    /\ report # EmptyObject =>
          /\ fileIdx \in 1..Len(files)
          /\ candidates = ExtractCandidates(disk[files[fileIdx]].o)
    /\ \A k \in 1..Len(callLog) :
          /\ callLog[k].file \in Range(files)
          /\ PositionIn(files, callLog[k].file) <= fileIdx
          /\ PositionIn(files, callLog[k].file) = fileIdx =>
                \/ pc = "done"
                \/ report # EmptyObject /\ callLog[k].cand <= candIdx
    /\ \A j, k \in 1..Len(callLog) :
          j < k => IssuedInOrder(callLog[j], callLog[k])

\* a request for the second part is in flight after requests to two models
\* for a candidate of the first part and to a model for its next candidate
SingleWorkerWitness ==
    /\ pc = "await" /\ Len(files) = 2 /\ fileIdx = 2
    /\ Len(callLog) >= 4
    /\ callLog[1] = [file |-> files[1], cand |-> 1, model |-> 1, outcome |-> "failed"]
    /\ callLog[2] = [file |-> files[1], cand |-> 1, model |-> 2, outcome |-> "ok"]
    /\ callLog[3].cand = 2 /\ callLog[3].file = files[1]
    /\ callLog[Len(callLog)].file = files[2]

RECURSIVE RemoveAiInSuite(_, _, _)
RemoveAiInSuite(s, path, ti) ==
    IF Len(path) = 0
    THEN [s EXCEPT !.tests[ti] = Without(@, "ai")]
    ELSE [s EXCEPT !.suites[Head(path)] = RemoveAiInSuite(@, Tail(path), ti)]

\* the report without the ai of the tests at the places cs
RECURSIVE Unenriched(_, _)
Unenriched(rep, cs) ==
    IF Len(cs) = 0 THEN rep
    ELSE Unenriched([rep EXCEPT !.results[Head(Head(cs).suites)] =
                        RemoveAiInSuite(@, Tail(Head(cs).suites), Head(cs).test)],
                    Tail(cs))

\* the file is as it was, or it differs by an ai on every test that was
\* failed and had none, and by nothing else
FrameOf(old, new) ==
    \/ new = old
    \/ /\ old.kind = "json" /\ new.kind = "json"
       /\ "results" \in DOMAIN old.o /\ "results" \in DOMAIN new.o
       /\ \E cs \in {ExtractCandidates(old.o)} :
             /\ \A i \in 1..Len(cs) : "ai" \in DOMAIN TestAt(new.o, cs[i])
             /\ Unenriched(new.o, cs) = old.o

\* the rename step changes names, never a content; between it and a write
\* nothing touches the disk; a write touches the part the loop is at only
DiskFrame ==
    /\ pc = "start" =>
          /\ {disk'[p] : p \in DOMAIN disk'} = {disk[p] : p \in DOMAIN disk}
          /\ Cardinality(DOMAIN disk') = Cardinality(DOMAIN disk)
    /\ pc \notin {"start", "persist"} => disk' = disk
    /\ pc = "persist" =>
          /\ DOMAIN disk' = DOMAIN disk
          /\ \A p \in DOMAIN disk \ {files[fileIdx]} : disk'[p] = disk[p]

\* C22 as stated: whatever a run does to a report file, the file differs
\* from what it was by an ai on the tests that were failed and had none,
\* and by nothing else, and no other file changes
EnrichmentFrameAlways ==
    [][ /\ DiskFrame
        /\ pc = "persist" =>
              FrameOf(disk[files[fileIdx]], disk'[files[fileIdx]]) ]_vars

\* C22: a write that does not fail changes a report file by an ai on the
\* tests that were failed and had none and by nothing else: stats, meta,
\* the other tests and the other fields of the enriched tests are as they
\* were; a write that fails leaves the file as it was or unreadable; and no
\* step of a run changes the content of another file
EnrichmentFrame ==
    [][ /\ DiskFrame
        /\ pc = "persist" =>
              \/ /\ files[fileIdx] \in writeErrors'
                 /\ disk'[files[fileIdx]] \in {disk[files[fileIdx]], Garbage}
              \/ /\ files[fileIdx] \notin writeErrors'
                 /\ disk'[files[fileIdx]] # disk[files[fileIdx]]
                 /\ FrameOf(disk[files[fileIdx]], disk'[files[fileIdx]]) ]_vars

\* the run has ended with the login report enriched next to its passed
\* test, its stats and its meta, and with a report without candidates
EnrichmentFrameWitness ==
    /\ pc = "done" /\ writeErrors = {} /\ Len(files) = 2
    /\ \E p, q \in Range(files) :
          /\ disk[q] = Json(ReportGreen)
          /\ disk[p].kind = "json"
          /\ Get(disk[p].o, "meta") = ReportLogin.meta
          /\ Get(disk[p].o, "stats") = ReportLogin.stats
          /\ disk[p] # Json(ReportLogin)
          /\ FrameOf(Json(ReportLogin), disk[p])
          /\ TestPassed \in TestsOnDisk(p)

\* the places of the JSON objects of a raw text: a "{", members, a "}"
BalancedObjects(raw) ==
    {ij \in (1..Len(raw)) \X (1..Len(raw)) :
        /\ ij[1] < ij[2]
        /\ raw[ij[1]] = LBrace /\ raw[ij[2]] = RBrace
        /\ \A k \in (ij[1] + 1)..(ij[2] - 1) : raw[k].kind = "members"}

FirstBalancedObject(raw) ==
    LET ij == CHOOSE a \in BalancedObjects(raw) :
                  \A b \in BalancedObjects(raw) : a[1] <= b[1]
    IN  Object(MergeMembers(SubSeq(raw, ij[1] + 1, ij[2] - 1)))

\* C23: with a JSON object in the raw text the Validator makes of the text
\* what it makes of the first such object, whatever stands before and after
\* it; it throws 'Malformed JSON response' only without any; and it returns
\* an Insight only for a parsed object
JsonExtraction ==
    vout # NoOutput =>
        /\ BalancedObjects(vin.raw) # {} =>
              vout = sanitize(FirstBalancedObject(vin.raw), vin.test)
        /\ BalancedObjects(vin.raw) = {} => ~vout.ok
        /\ (~vout.ok /\ vout.err = "Malformed JSON response") =>
              BalancedObjects(vin.raw) = {}

\* the words of a text: what stands between its spaces
WordCount(s) == Cardinality({i \in DOMAIN split(s) : split(s)[i] # ""})

EndsInEllipsis(s) == Len(s) >= 3 /\ SubSeq(s, Len(s) - 2, Len(s)) = "..."

\* the value JSON.parse returned for the raw text of vin
ParsedData == JsonParse(RegexMatch(vin.raw).str).v

\* the bounds of summary, severity, confidence and tags
FieldBoundsButRecommendation ==
    vout.ok =>
        /\ WordCount(vout.value.summary.s) <= 15
        /\ vout.value.severity \in {Str(l) : l \in SeverityLevels}
        /\ \E sev \in {Prop(ParsedData, "severity")} :
              IF sev.t = "string" /\ toLowerCase(sev.s) \in SeverityLevels
              THEN vout.value.severity = Str(toLowerCase(sev.s))
              ELSE vout.value.severity = Str("medium")
        /\ vout.value.confidence.t = "number"
        /\ vout.value.confidence.n \in 0..100
        /\ Prop(ParsedData, "confidence").t # "number" =>
              vout.value.confidence = Num(50)
        /\ vout.value.tags.t = "array"
        /\ Len(vout.value.tags.a) <= 5
        /\ \E tags \in {Prop(ParsedData, "tags")} :
              (tags.t # "array" \/ tags = Arr(<<>>)) => Len(vout.value.tags.a) <= 4

\* C24: an Insight validateAndSanitize returns has a summary of at most 15
\* words, a recommendation of at least 10 words that does not end in an
\* ellipsis, a severity of the four levels (the level of the response
\* whatever its case, else medium), a confidence within [0, 1] (0.5 when
\* the response has no number) and at most 5 tags (4 when they are derived)
FieldBounds ==
    /\ FieldBoundsButRecommendation
    /\ vout.ok =>
          /\ WordCount(vout.value.recommendation.s) >= 10
          /\ ~EndsInEllipsis(vout.value.recommendation.s)

\* the results of the parts before part n of the list, one after the other
RECURSIVE ResultsUpTo(_)
ResultsUpTo(n) ==
    IF n = 0 THEN <<>>
    ELSE ResultsUpTo(n - 1)
         \o (IF "results" \in DOMAIN disk[mfiles[n]].o
             THEN disk[mfiles[n]].o.results ELSE <<>>)

\* C25: a part that is JSON without a stats block does not end the merge:
\* the merge throws at parts that are not JSON only; and the report that is
\* returned has the results of every part, in the order of the parts, and
\* counters to which a part without stats adds nothing
MissingStatsIsZero ==
    /\ (mpc = "threw" /\ Len(mfiles) > 0) => disk[mfiles[midx]].kind # "json"
    /\ (mpc = "returned" /\ Len(mfiles) > 0) =>
          /\ master.results = ResultsUpTo(Len(mfiles))
          /\ \A k \in AdditiveCounters : master.stats[k] = Total(k)

\* the request issued last was to model k for the candidate in progress
\* and has failed
LastCallFailedAt(k) ==
    /\ Len(callLog) > 0
    /\ callLog[Len(callLog)] =
          [file |-> files[fileIdx], cand |-> candIdx, model |-> k,
           outcome |-> "failed"]

\* C26: the request to the first model of the list follows the start of
\* the candidate with no wait in between; the request to a later model
\* follows a wait, and the wait follows the failure of the model before it
\* for the same candidate, with no other request in between
InterModelCooldown ==
    /\ [](pc = "sleep" => (modelIdx > 1 /\ LastCallFailedAt(modelIdx - 1)))
    /\ []((pc = "request" /\ modelIdx = 1) => CallsOf(candIdx) = <<>>)
    /\ []((pc = "request" /\ modelIdx > 1) => LastCallFailedAt(modelIdx - 1))
    /\ [][ /\ (pc' = "request" /\ modelIdx' = 1) => pc = "candidate"
           /\ (pc' = "request" /\ modelIdx' > 1) => (pc = "sleep" /\ modelIdx' = modelIdx)
           /\ pc' = "sleep" => (pc = "await" /\ modelIdx' = modelIdx + 1)
           /\ (pc = "await" /\ callLog'[Len(callLog')].outcome = "failed"
                  /\ modelIdx < Len(models)) => pc' = "sleep"
           /\ callLog' # callLog => (pc = "request" <=> Len(callLog') > Len(callLog))
        ]_vars

\* the third model is about to be requested after the wait that followed
\* the failure of the second, which was requested after a wait too
InterModelCooldownWitness ==
    /\ pc = "request" /\ modelIdx = 3
    /\ Len(CallsOf(candIdx)) = 2
    /\ LastCallFailedAt(2)

\* part j has been read by the loop over the parts
LoopHasRead(j) == j < fileIdx \/ (j = fileIdx /\ pc # "file")

\* the loop over the parts has left part j
LoopHasLeft(j) == j < fileIdx \/ pc = "done"

\* C27 as stated: at the end of a run every part has been read once and
\* written once
ReadOnceWrittenOnce ==
    pc = "done" =>
        \A j \in 1..Len(files) : reads[files[j]] = 1 /\ writes[files[j]] = 1

\* C27: the loop over the parts reads every part once, after the rename
\* step has read it once if it had a generic name then; writeJson is called
\* for a part at most once, after its last candidate, and not at all for a
\* part that cannot be read or has no candidate
ReadsAndWrites ==
    /\ [](pc \in {"file", "done"} \cup EnrichPcs \cup {"persist"} =>
            \A j \in 1..Len(files) :
                \E p \in {files[j]} : \E inLoop \in {IF LoopHasRead(j) THEN 1 ELSE 0} :
                    /\ reads[p] \in {inLoop, inLoop + 1}
                    /\ IsGenericName(p) => reads[p] = inLoop + 1
                    /\ writes[p] \in {0, 1}
                    /\ writes[p] = 1 =>
                          /\ LoopHasLeft(j)
                          /\ \/ p \in writeErrors
                             \/ /\ Settled(j) /\ ~IsInvalidReport(disk, p)
                                /\ \E t \in TestsOnDisk(p) : "ai" \in DOMAIN t
                    /\ (LoopHasLeft(j) /\ writes[p] = 0) => Settled(j))
    /\ [][ /\ pc = "start" =>
                \A q \in DOMAIN disk' :
                    reads'[q] = IF q \notin DOMAIN disk THEN 1
                                ELSE IF IsGenericName(q) /\ q \in GlobNames(disk)
                                THEN 1 ELSE 0
           /\ (pc = "file" /\ pc' \in {"file", "done"}) =>
                 /\ writes' = writes /\ disk' = disk
                 /\ \/ IsInvalidReport(disk, files[fileIdx])
                    \/ ExtractCandidates(disk[files[fileIdx]].o) = <<>>
           /\ (pc \notin {"start", "done"} /\ writes' # writes) =>
                 /\ pc = "persist"
                 /\ \A i \in 1..Len(candidates) :
                       "ai" \in DOMAIN TestAt(report, candidates[i])
         ]_vars

\* the run has ended: the part that was found as results.json was read
\* twice and written once, the part without candidates was read once and
\* never written
ReadsAndWritesWitness ==
    /\ pc = "done" /\ Len(files) = 2 /\ writeErrors = {}
    /\ \E p, q \in Range(files) :
          /\ reads[p] = 2 /\ writes[p] = 1
          /\ disk[q] = Json(ReportGreen) /\ reads[q] = 1 /\ writes[q] = 0

\* C28: after an execution of the metrics script the stored list has at
\* most 30 records; they are the records of the latest executions, in the
\* order of the executions, and the last one is the record of the
\* execution that has just ended
RunHistoryBound ==
    executions >= 1 =>
        /\ outFile \in DOMAIN disk
        /\ disk[outFile].kind = "array"
        /\ \E stored \in {disk[outFile].a} :
              /\ Len(stored) \in 1..30
              /\ \A i \in 1..Len(stored) :
                    stored[i].ts = executions - Len(stored) + i

\* the requests of this run for candidate i of part p
RequestsFor(p, i) == SelectSeq(callLog, LAMBDA e : e.file = p /\ e.cand = i)

Enriched ==
    SelectSeq(candidates, LAMBDA c : "ai" \in DOMAIN TestAt(report, c))

\* C30: writeJson is called for a part only when each of its candidates has
\* an ai, and nothing touches the disk while candidates are enriched: at
\* every moment of the loop over the candidates the file holds the content
\* the run found, without any ai of this run, so that a run started on it
\* selects the same candidates
PersistOrdering ==
    /\ [](pc \in EnrichPcs =>
            \E p \in {files[fileIdx]} :
                /\ writes[p] = 0
                /\ disk[p].kind = "json"
                /\ disk[p].o = Unenriched(report, Enriched)
                /\ ExtractCandidates(disk[p].o) = candidates
                /\ run > 1 => \E q \in DOMAIN prevDisk : prevDisk[q] = disk[p])
    /\ [](pc = "persist" =>
            /\ writes[files[fileIdx]] = 0
            /\ Enriched = candidates)
    /\ [][ /\ pc \in EnrichPcs => (disk' = disk /\ writes' = writes)
           /\ writes' # writes => pc \in {"start", "persist", "done"}
         ]_vars

\* in a second run the first candidate of a part has its ai and the second
\* is being enriched, while the file still has both without ai
PersistOrderingWitness ==
    /\ run = 2 /\ pc = "await" /\ candIdx = 2
    /\ Len(Enriched) = 1
    /\ \A i \in 1..2 :
          "ai" \notin DOMAIN TestAt(disk[files[fileIdx]].o, candidates[i])

====
